---- MODULE Spec2Model ----
(***************************************************************************)
(* SHACL validator web client: the validator page (App, ValidatorInput,    *)
(* SHACLValidationService), the results view (ValidationResults and the    *)
(* report worker) and the report viewer (ReportViewer).                    *)
(*                                                                         *)
(* JavaScript strings are sequences of one-character strings, so that      *)
(* concatenation, includes, startsWith, endsWith, toLowerCase, split and   *)
(* replace are computed as the code computes them.  An absent (undefined)  *)
(* string is the empty sequence wherever the code only tests the value for *)
(* truthiness.                                                             *)
(***************************************************************************)
EXTENDS Integers, Sequences, FiniteSets, TLC

VARIABLES
    \* ValidationResults component
    report,          \* the report prop
    rows,            \* useState rows
    summary,         \* useState summary
    history,         \* useState history (mirrored in localStorage)
    severityFilter,  \* useState severityFilter
    flattenRuns,     \* flatten effects whose worker call has not resolved yet
    reportChanges,   \* number of report props received so far
    \* ReportViewer component
    inputText,       \* useState inputText
    uploadedFileName,\* useState uploadedFileName
    viewerReport,    \* useState report
    viewerIsLoading, \* useState isLoading
    error,           \* useState error
    viewMode,        \* useState viewMode
    parseCall,       \* the text of the parseShaclReport call the worker has not answered
    download,        \* the file the last step handed to the browser, if any
    \* ValidatorInput component, App and SHACLValidationService
    selectedProfile,    \* useState selectedProfile
    customShaclFiles,   \* useState customShaclFiles
    textContent,        \* useState textContent
    isLoading,          \* App's useState isLoading
    validations,        \* App.handleValidate calls whose validateRDF has not settled
    shaclShapesCache,   \* SHACLValidationService.shaclShapesCache
    validationsStarted, \* number of validations started so far
    fetchCount,         \* per URL, the fetch calls of getSHACLShapes since the last clearCache
    pendingValidation,    \* useState pendingValidation
    showLargeFileWarning, \* useState showLargeFileWarning
    validatingLargeFile,  \* useState validatingLargeFile
    upload,               \* uploadState, uploadedFileName and uploadCancelledRef of
                          \* ValidatorInput, and the readFileInChunks call not settled yet
    shaclDrop             \* the SHACLManager.onDrop call whose loop has not finished

resultsVars == <<report, rows, summary, history, severityFilter, flattenRuns, reportChanges>>

viewerVars == <<inputText, uploadedFileName, viewerReport, viewerIsLoading, error, viewMode,
                parseCall, download>>

\* The cells of the large file warning of ValidatorInput
largeFileCells == <<pendingValidation, showLargeFileWarning, validatingLargeFile>>

validatorVars == <<selectedProfile, customShaclFiles, textContent, isLoading, validations,
                   shaclShapesCache, validationsStarted, fetchCount, largeFileCells, upload,
                   shaclDrop>>

vars == <<resultsVars, viewerVars, validatorVars>>

\* null / undefined of a state cell
Null == [null |-> TRUE]

----------------------------------------------------------------------------
(* Bounds *)

MaxFindings == 3        \* findings in one report
MaxReportChanges == 1   \* report props that replace the first one
MaxResults == 3         \* sh:result entries of an imported report
MaxCustomFiles == 1     \* custom SHACL files held at a time
MaxEngineResults == 3   \* results in one report of the engine
MaxValidations == 2     \* validations started in one run
MaxCsvLen == 2          \* characters in a value written to a CSV file
MaxFileChars == 3       \* characters of an uploaded file
chunkSize == 2          \* bytes of a slice of readFileInChunks, scaled down from 256 * 1024
MaxUploads == 3         \* files read by readFileInChunks in a behaviour
MaxDropFiles == 2       \* files dropped at once on the SHACL drop area

----------------------------------------------------------------------------
(* String primitives *)

S_Violation == <<"V","i","o","l","a","t","i","o","n">>
S_Warning == <<"W","a","r","n","i","n","g">>
S_Info == <<"I","n","f","o">>


ToLowerChar(c) ==
    LET upper == <<"A","B","C","D","E","F","G","H","I","J","K","L","M","N","O","P","Q","R","S","T","U","V","W","X","Y","Z">>
        lower == <<"a","b","c","d","e","f","g","h","i","j","k","l","m","n","o","p","q","r","s","t","u","v","w","x","y","z">>
    IN IF \E k \in 1..Len(upper) : upper[k] = c
       THEN lower[CHOOSE k \in 1..Len(upper) : upper[k] = c]
       ELSE c

\* String.prototype.toLowerCase
ToLowerCase(s) == [k \in 1..Len(s) |-> ToLowerChar(s[k])]

\* True when sub occurs in s at (1-based) position p
OccursAt(s, sub, p) ==
    /\ p >= 1
    /\ p + Len(sub) - 1 <= Len(s)
    /\ \A k \in 1..Len(sub) : s[p + k - 1] = sub[k]

\* String.prototype.includes
Includes(s, sub) == \E p \in 1..(Len(s) + 1) : OccursAt(s, sub, p)

\* String.prototype.startsWith
StartsWith(s, prefix) == OccursAt(s, prefix, 1)

\* String.prototype.endsWith
EndsWith(s, suffix) == OccursAt(s, suffix, Len(s) - Len(suffix) + 1)

\* s.split(sep)[0]: the part of s before the first occurrence of sep
SplitFirst(s, sep) ==
    IF Includes(s, sep)
    THEN LET p == CHOOSE q \in 1..(Len(s) + 1) :
                    /\ OccursAt(s, sep, q)
                    /\ \A r \in 1..(q - 1) : ~OccursAt(s, sep, r)
         IN SubSeq(s, 1, p - 1)
    ELSE s

RECURSIVE JoinFrom(_, _, _)
JoinFrom(parts, sep, k) ==
    IF k > Len(parts) THEN <<>>
    ELSE IF k = Len(parts) THEN parts[k]
    ELSE parts[k] \o sep \o JoinFrom(parts, sep, k + 1)

\* Array.prototype.join
Join(parts, sep) == JoinFrom(parts, sep, 1)

RECURSIVE ReplaceChar(_, _, _)
\* s.replace(/c/g, r) for a one-character pattern c
ReplaceChar(s, c, r) ==
    IF Len(s) = 0 THEN <<>>
    ELSE (IF Head(s) = c THEN r ELSE <<Head(s)>>) \o ReplaceChar(Tail(s), c, r)


\* String(n) for a small natural number
NatString(n) ==
    LET digits == <<"0","1","2","3","4","5","6","7","8","9">>
    IN IF n < 10 THEN <<digits[n + 1]>>
       ELSE <<digits[(n \div 10) + 1], digits[(n % 10) + 1]>>

\* Array.prototype.slice(0, n)
Slice(s, n) == SubSeq(s, 1, IF Len(s) < n THEN Len(s) ELSE n)

\* All sequences over S of length at most n
SeqsUpTo(S, n) == UNION {[1..k -> S] : k \in 0..n}

----------------------------------------------------------------------------
(* Report worker: flattenReport *)

\* id: `${entry.severity}-${index}-${entry.focusNode}`, kept as its three parts
\* constraintKey: `${entry.sourceShape}-${entry.sourceConstraintComponent}`
FlattenedRow(entry, index) ==
    [f \in DOMAIN entry \cup {"id", "constraintKey"} |->
        IF f = "id" THEN <<entry.severity, index, entry.focusNode>>
        ELSE IF f = "constraintKey"
             THEN entry.sourceShape \o <<"-">> \o entry.sourceConstraintComponent
             ELSE entry[f]]

flattenReportMissingInfos(r) ==
    LET nv == Len(r.violations)
        nw == Len(r.warnings)
        flat == [k \in 1..nv |-> FlattenedRow(r.violations[k], k - 1)]
                \o [k \in 1..nw |-> FlattenedRow(r.warnings[k], nv + k - 1)]
    IN [rows |-> flat,
        summary |-> [violation |-> nv, warning |-> nw, info |-> Len(r.infos), total |-> Len(flat)]]

flattenReport(r) ==
    LET nv == Len(r.violations)
        nw == Len(r.warnings)
        ni == Len(r.infos)
        flat == [k \in 1..nv |-> FlattenedRow(r.violations[k], k - 1)]
                \o [k \in 1..nw |-> FlattenedRow(r.warnings[k], nv + k - 1)]
                \o [k \in 1..ni |-> FlattenedRow(r.infos[k], nv + nw + k - 1)]
    IN [rows |-> flat,
        summary |-> [violation |-> nv, warning |-> nw, info |-> ni, total |-> Len(flat)]]

----------------------------------------------------------------------------
(* ValidationResults: filteredRows and groupedFindings *)


\* normalizeLang: undefined for a falsy lang, else the lower-cased primary subtag
normalizeLang(lang) ==
    IF Len(lang) = 0 THEN <<>> ELSE SplitFirst(ToLowerCase(lang), <<"-">>)

\* `${normalizeLang(msg.lang) || 'und'}::${msg.text}` joined with '||'
fingerprintMessages(messages) ==
    IF Len(messages) = 0 THEN <<"_","_","e","m","p","t","y","_","_">>
    ELSE Join([k \in 1..Len(messages) |->
                 (IF Len(normalizeLang(messages[k].lang)) = 0
                  THEN <<"u","n","d">>
                  ELSE normalizeLang(messages[k].lang))
                 \o <<":",":">> \o messages[k].text],
              <<"|","|">>)

filteredRowsKeepAll(allRows, filter) == allRows

filteredRows(allRows, filter) ==
    IF filter = <<"a","l","l">> THEN allRows
    ELSE SelectSeq(allRows, LAMBDA row : Includes(ToLowerCase(row.severity), filter))

\* `${row.severity}-${row.sourceShape}-${row.sourceConstraintComponent}-${messageFingerprint}`
GroupKey(row) ==
    row.severity \o <<"-">> \o row.sourceShape \o <<"-">>
        \o row.sourceConstraintComponent \o <<"-">> \o fingerprintMessages(row.message)

severityRanking(sev) ==
    IF sev = S_Violation THEN 0 ELSE IF sev = S_Warning THEN 1 ELSE 2

\* The comparator of the final sort: negative when a goes before b
CompareGroups(a, b) ==
    IF severityRanking(a.severity) # severityRanking(b.severity)
    THEN severityRanking(a.severity) - severityRanking(b.severity)
    ELSE b.total - a.total

\* Array.prototype.sort is stable: g goes after every element that does not
\* compare greater than it
InsertGroup(sorted, g) ==
    LET after == {k \in 1..Len(sorted) : CompareGroups(sorted[k], g) > 0}
        pos == IF after = {} THEN Len(sorted) + 1
               ELSE CHOOSE k \in after : \A m \in after : k <= m
    IN SubSeq(sorted, 1, pos - 1) \o <<g>> \o SubSeq(sorted, pos, Len(sorted))

RECURSIVE SortGroups(_, _)
SortGroups(groups, k) ==
    IF k = 0 THEN <<>> ELSE InsertGroup(SortGroups(groups, k - 1), groups[k])

\* AddRowToGroups with a slip: a row whose group exists already is not counted
AddRowToGroupsOnce(map, row, index) ==
    IF \E k \in 1..Len(map) : map[k].id = GroupKey(row) THEN map
    ELSE Append(map, [id |-> GroupKey(row),
                      severity |-> row.severity,
                      messages |-> row.message,
                      sourceShape |-> row.sourceShape,
                      sourceConstraintComponent |-> row.sourceConstraintComponent,
                      foafPage |-> row.foafPage,
                      occurrences |-> <<[id |-> <<GroupKey(row), 0, index>>,
                                         focusNode |-> row.focusNode,
                                         path |-> row.path,
                                         value |-> row.value]>>,
                      total |-> 1])

\* One iteration of filteredRows.forEach((row, index) => ...); map keeps the
\* groups in the insertion order of their keys
AddRowToGroups(map, row, index) ==
    LET key == GroupKey(row)
        map1 == IF \E k \in 1..Len(map) : map[k].id = key THEN map
                ELSE Append(map, [id |-> key,
                                  severity |-> row.severity,
                                  messages |-> row.message,
                                  sourceShape |-> row.sourceShape,
                                  sourceConstraintComponent |-> row.sourceConstraintComponent,
                                  foafPage |-> row.foafPage,
                                  occurrences |-> <<>>,
                                  total |-> 0])
        pos == CHOOSE k \in 1..Len(map1) : map1[k].id = key
        group == map1[pos]
        updated == [group EXCEPT
            !.messages = IF fingerprintMessages(group.messages) # fingerprintMessages(row.message)
                         THEN row.message ELSE @,
            !.occurrences = Append(@, [id |-> <<key, Len(group.occurrences), index>>,
                                       focusNode |-> row.focusNode,
                                       path |-> row.path,
                                       value |-> row.value]),
            !.total = @ + 1]
    IN [map1 EXCEPT ![pos] = updated]

RECURSIVE GroupRows(_, _)
GroupRows(frows, k) ==
    IF k = 0 THEN <<>> ELSE AddRowToGroups(GroupRows(frows, k - 1), frows[k], k - 1)

groupedFindings(frows) ==
    LET map == GroupRows(frows, Len(frows)) IN SortGroups(map, Len(map))

----------------------------------------------------------------------------
(* Reports handed to the results view *)

HistoryLimit == 10

\* Shapes and constraint components are IRIs or blank node labels; both may
\* contain the '-' that GroupKey uses as its separator
FindingShapes ==
    {<<<<"s">>, <<"x","-","c">>, <<>>>>,
     <<<<"s","-","x">>, <<"c">>, <<>>>>,
     <<<<"s">>, <<"x","-","c">>, <<[text |-> <<"m">>, lang |-> <<"e","s">>]>>>>}

Finding(sev, shape, component, messages) ==
    [severity |-> sev,
     focusNode |-> <<"f">>,
     path |-> <<"p">>,
     value |-> <<>>,
     message |-> messages,
     sourceConstraintComponent |-> component,
     sourceShape |-> shape,
     resultSeverity |-> <<>>,
     foafPage |-> <<>>]

FindingsOf(sev) == {Finding(sev, c[1], c[2], c[3]) : c \in FindingShapes}

Report(violations, warnings, infos, timestamp) ==
    [profile |-> "dcat_ap_es",
     conforms |-> (Len(violations) + Len(warnings) + Len(infos) = 0),
     totalViolations |-> Len(violations),
     violations |-> violations,
     warnings |-> warnings,
     infos |-> infos,
     timestamp |-> timestamp]

\* Every list of a report holds findings of its own severity only, as
\* validateRDF and buildReportFromQuads build them
ReportsUpTo(n, timestamp) ==
    UNION {{Report(v, w, i, timestamp) :
                v \in [1..len[1] -> FindingsOf(S_Violation)],
                w \in [1..len[2] -> FindingsOf(S_Warning)],
                i \in [1..len[3] -> FindingsOf(S_Info)]} :
           len \in {t \in (0..n) \X (0..n) \X (0..n) : t[1] + t[2] + t[3] <= n}}

ReplacementReports(timestamp) ==
    {Report(<<>>, <<>>, <<>>, timestamp),
     Report(<<Finding(S_Violation, <<"s">>, <<"c">>, <<>>)>>, <<>>, <<>>, timestamp),
     Report(<<>>, <<Finding(S_Warning, <<"s">>, <<"c">>, <<>>)>>,
            <<Finding(S_Info, <<"s">>, <<"c">>, <<>>)>>, timestamp)}

----------------------------------------------------------------------------
(* The components a specification leaves untouched *)

BlankText == [blank |-> TRUE, prefixes |-> {}, triples |-> <<>>]

ValidatorIdle ==
    /\ selectedProfile = [profile |-> "dcat_ap_es", version |-> "1.0.0", branch |-> "main",
                          mode |-> "predefined"]
    /\ customShaclFiles = <<>>
    /\ textContent = BlankText
    /\ isLoading = FALSE
    /\ validations = <<>>
    /\ shaclShapesCache = {}
    /\ validationsStarted = 0
    /\ fetchCount = <<>>
    /\ pendingValidation = Null
    /\ showLargeFileWarning = FALSE
    /\ validatingLargeFile = Null
    /\ upload = [progress |-> 0, isUploading |-> FALSE, error |-> Null,
                 uploadedFileName |-> Null, uploadCancelledRef |-> FALSE, call |-> Null,
                 started |-> 0, settled |-> 0]
    /\ shaclDrop = Null

ViewerIdle ==
    /\ inputText = BlankText
    /\ uploadedFileName = Null
    /\ viewerReport = Null
    /\ viewerIsLoading = FALSE
    /\ error = Null
    /\ viewMode = "import"
    /\ parseCall = Null
    /\ download = Null

----------------------------------------------------------------------------
(* ValidationResults: state and effects *)

ResultsInit ==
    /\ report \in ReportsUpTo(MaxFindings, 0)
    /\ rows = <<>>
    /\ summary = [violation |-> 0, warning |-> 0, info |-> 0, total |-> 0]
    /\ history = <<>>
    /\ severityFilter = <<"a","l","l">>
    \* the flatten effect of the first render has called the worker
    /\ flattenRuns = <<[report |-> report, history |-> history, cancelled |-> FALSE]>>
    /\ reportChanges = 0
    /\ ViewerIdle
    /\ ValidatorIdle

\* A new report prop: the cleanup of the previous flatten effect sets its
\* cancelled flag, then the effect runs again and calls the worker
ReportPropChange ==
    /\ reportChanges < MaxReportChanges
    /\ \E r \in ReplacementReports(reportChanges + 1) :
        /\ report' = r
        /\ flattenRuns' = Append([k \in 1..Len(flattenRuns) |->
                                    [flattenRuns[k] EXCEPT !.cancelled = TRUE]],
                                 [report |-> r, history |-> history, cancelled |-> FALSE])
    /\ reportChanges' = reportChanges + 1
    /\ UNCHANGED <<rows, summary, history, severityFilter>>

\* The worker's answer stored without a look at the cancelled flag
FlattenResolveIgnoringCancelled ==
    /\ Len(flattenRuns) > 0
    /\ LET run == Head(flattenRuns)
           flat == flattenReport(run.report)
       IN /\ rows' = flat.rows
          /\ summary' = flat.summary
          /\ history' = Slice(<<[timestamp |-> run.report.timestamp,
                                 total |-> flat.summary.total]>> \o run.history,
                              HistoryLimit)
    /\ flattenRuns' = Tail(flattenRuns)
    /\ UNCHANGED <<report, severityFilter, reportChanges>>

\* The worker answers the oldest pending flattenReport call
FlattenResolve ==
    /\ Len(flattenRuns) > 0
    /\ LET run == Head(flattenRuns)
           flat == flattenReport(run.report)
           nextHistory == Slice(<<[timestamp |-> run.report.timestamp,
                                   total |-> flat.summary.total]>> \o run.history,
                                HistoryLimit)
       IN IF run.cancelled
          THEN UNCHANGED <<rows, summary, history>>
          ELSE /\ rows' = flat.rows
               /\ summary' = flat.summary
               /\ history' = nextHistory
    /\ flattenRuns' = Tail(flattenRuns)
    /\ UNCHANGED <<report, severityFilter, reportChanges>>

SetSeverityFilter ==
    /\ \E f \in {<<"a","l","l">>, <<"v","i","o","l","a","t","i","o","n">>, <<"w","a","r","n","i","n","g">>, <<"i","n","f","o">>} :
        /\ f # severityFilter
        /\ severityFilter' = f
    /\ UNCHANGED <<report, rows, summary, history, flattenRuns, reportChanges>>

ResultsNext ==
    /\ ReportPropChange \/ FlattenResolve \/ SetSeverityFilter
    /\ UNCHANGED <<viewerVars, validatorVars>>

SpecResults == ResultsInit /\ [][ResultsNext]_vars

----------------------------------------------------------------------------
(* Results view: claims *)

\* The 0-based filteredRows indexes counted in group g
OccurrenceIndexes(g) == {g.occurrences[o].id[3] : o \in 1..Len(g.occurrences)}

\* Rows i and j of filteredRows (1-based) are counted in the same group
CountedTogether(groups, i, j) ==
    \E g \in 1..Len(groups) :
        /\ (i - 1) \in OccurrenceIndexes(groups[g])
        /\ (j - 1) \in OccurrenceIndexes(groups[g])

\* The ordered list of language-tagged message texts of a row
TaggedMessages(row) ==
    [k \in 1..Len(row.message) |-> <<normalizeLang(row.message[k].lang), row.message[k].text>>]

SameGroupingTuple(a, b) ==
    /\ a.severity = b.severity
    /\ a.sourceShape = b.sourceShape
    /\ a.sourceConstraintComponent = b.sourceConstraintComponent
    /\ TaggedMessages(a) = TaggedMessages(b)

\* C3: two findings of the results view are counted in the same group if and
\* only if they have the same severity, the same source shape, the same
\* constraint component and the same ordered list of language-tagged messages.
C3_GroupedByTuple ==
    LET frows == (filteredRows(rows, severityFilter))
        groups == groupedFindings(frows)
    IN \A i, j \in 1..Len(frows) :
          CountedTogether(groups, i, j) <=> SameGroupingTuple(frows[i], frows[j])

RECURSIVE SumTotals(_, _)
SumTotals(groups, k) == IF k = 0 THEN 0 ELSE groups[k].total + SumTotals(groups, k - 1)

\* C4: every row that passes the severity filter is counted in exactly one
\* group and once in it; each group's total is the number of its occurrences;
\* the totals of all groups sum to the number of filtered rows.
C4_GroupsPartitionFilteredRows ==
    LET frows == (filteredRows(rows, severityFilter))
        groups == groupedFindings(frows)
    IN /\ \A i \in 1..Len(frows) :
             Cardinality({<<g, o>> \in (1..Len(groups)) \X (1..Len(frows)) :
                             /\ o <= Len(groups[g].occurrences)
                             /\ groups[g].occurrences[o].id[3] = i - 1}) = 1
       /\ \A g \in 1..Len(groups) : groups[g].total = Len(groups[g].occurrences)
       /\ SumTotals(groups, Len(groups)) = Len(frows)

\* Rows are shown, one group holds several of them and there are several groups
C4_Witness ==
    LET frows == (filteredRows(rows, severityFilter))
        groups == groupedFindings(frows)
    IN /\ Len(frows) = 3
       /\ Len(groups) = 2
       /\ \E g \in 1..Len(groups) : groups[g].total = 2

FindingFields ==
    {"severity", "focusNode", "path", "value", "message",
     "sourceConstraintComponent", "sourceShape", "foafPage"}

\* C5: once the worker has answered for the current report, rows holds one row
\* per finding, the violations first, then the warnings, then the infos, each
\* list in its order, and summary.total = violation + warning + info = the
\* number of rows.
C5_FlattenedInOrder ==
    flattenRuns = <<>> =>
        LET findings == report.violations \o report.warnings \o report.infos
        IN /\ Len(rows) = Len(findings)
           /\ \A k \in 1..Len(findings) :
                 \A f \in FindingFields : rows[k][f] = findings[k][f]
           /\ summary.violation = Len(report.violations)
           /\ summary.warning = Len(report.warnings)
           /\ summary.info = Len(report.infos)
           /\ summary.total = summary.violation + summary.warning + summary.info
           /\ summary.total = Len(rows)

\* The worker has flattened a report that has findings of all three severities
C5_Witness ==
    /\ flattenRuns = <<>>
    /\ Len(report.violations) > 0
    /\ Len(report.warnings) > 0
    /\ Len(report.infos) > 0
    /\ Len(rows) = 3

\* C13: the worker's result for a report that has been replaced is discarded:
\* a step that changes rows, summary or history stores the flattening of the
\* report the results view holds at that step.
C13_StaleFlattenDiscarded ==
    [][(<<rows, summary, history>>' # <<rows, summary, history>>) =>
        /\ rows' = flattenReport(report').rows
        /\ summary' = flattenReport(report').summary
        /\ Len(history') > 0
        /\ history'[1] = [timestamp |-> report'.timestamp,
                          total |-> flattenReport(report').summary.total]]_vars

\* The worker has answered for a replaced report that had findings, and the
\* answer was dropped: the call for the new report is the only one pending
\* and nothing has been stored
C13_Witness ==
    /\ reportChanges = 1
    /\ Len(flattenRuns) = 1
    /\ flattenRuns[1].report = report
    /\ ~flattenRuns[1].cancelled
    /\ Len(flattenRuns[1].history) = 0
    /\ rows = <<>>
    /\ history = <<>>

SeverityOfFilter(f) ==
    IF f = <<"v","i","o","l","a","t","i","o","n">> THEN S_Violation
    ELSE IF f = <<"w","a","r","n","i","n","g">> THEN S_Warning
    ELSE S_Info

RowIds(rs) == {rs[k].id : k \in 1..Len(rs)}

\* C6: the filter 'all' shows every row; the filters 'violation', 'warning'
\* and 'info' show exactly the rows of that severity, in the order of rows;
\* the three filtered sets are pairwise disjoint and together cover all rows.
C6_FilterBySeverity ==
    /\ severityFilter = <<"a","l","l">> => (filteredRows(rows, severityFilter)) = rows
    /\ severityFilter # <<"a","l","l">> =>
          (filteredRows(rows, severityFilter)) = SelectSeq(rows, LAMBDA row : row.severity = SeverityOfFilter(severityFilter))
    /\ \A f, g \in {<<"a","l","l">>, <<"v","i","o","l","a","t","i","o","n">>, <<"w","a","r","n","i","n","g">>, <<"i","n","f","o">>} \ {<<"a","l","l">>} :
          f # g => RowIds(filteredRows(rows, f)) \cap RowIds(filteredRows(rows, g)) = {}
    /\ UNION {RowIds(filteredRows(rows, f)) : f \in {<<"a","l","l">>, <<"v","i","o","l","a","t","i","o","n">>, <<"w","a","r","n","i","n","g">>, <<"i","n","f","o">>} \ {<<"a","l","l">>}} = RowIds(rows)

\* A severity filter is set and hides some rows while showing others
C6_Witness ==
    /\ severityFilter = <<"w","a","r","n","i","n","g">>
    /\ Len((filteredRows(rows, severityFilter))) > 0
    /\ Len((filteredRows(rows, severityFilter))) < Len(rows)

----------------------------------------------------------------------------
(* RDF terms and the Turtle text handed to the N3 parser *)

NS_sh == <<"h","t","t","p",":","/","/","w","w","w",".","w","3",".","o","r","g","/","n","s","/","s","h","a","c","l","#">>

foafPage == <<"h","t","t","p",":","/","/","x","m","l","n","s",".","c","o","m","/","f","o","a","f","/","0",".","1","/">> \o <<"p","a","g","e">>

NamedNode(iri) == [termType |-> "NamedNode", value |-> iri, language |-> <<>>]
BlankNode(label) == [termType |-> "BlankNode", value |-> label, language |-> <<>>]
Literal(text, lang) == [termType |-> "Literal", value |-> text, language |-> lang]

\* Term.equals
TermEquals(a, b) ==
    /\ a.termType = b.termType
    /\ a.value = b.value
    /\ a.language = b.language

(***************************************************************************)
(* A Turtle text is kept as its prefix declarations and its triples, each  *)
(* term as the token the text holds for it:                                *)
(*   iri      <text>                                                       *)
(*   raw      text written as it is (prefixed name, keyword, boolean)      *)
(*   literal  "text"@lang, text being the characters between the quotes    *)
(*   anon     a [ ... ] node, text being the label the parser gives it     *)
(***************************************************************************)
IriToken(text) == [kind |-> "iri", text |-> text, lang |-> <<>>]
RawToken(text) == [kind |-> "raw", text |-> text, lang |-> <<>>]
LiteralToken(text, lang) == [kind |-> "literal", text |-> text, lang |-> lang]
AnonToken(label) == [kind |-> "anon", text |-> label, lang |-> <<>>]

Triple(s, p, o) == [subject |-> s, predicate |-> p, object |-> o]

PrefixIri(prefix) ==
    IF prefix = <<"s","h">> THEN NS_sh
    ELSE IF prefix = <<"d","c","t">> THEN <<"h","t","t","p",":","/","/","p","u","r","l",".","o","r","g","/","d","c","/","t","e","r","m","s","/">>
    ELSE IF prefix = <<"d","c","a","t">> THEN <<"h","t","t","p",":","/","/","w","w","w",".","w","3",".","o","r","g","/","n","s","/","d","c","a","t","#">>
    ELSE IF prefix = <<"f","o","a","f">> THEN <<"h","t","t","p",":","/","/","x","m","l","n","s",".","c","o","m","/","f","o","a","f","/","0",".","1","/">>
    ELSE IF prefix = <<"x","s","d">> THEN <<"h","t","t","p",":","/","/","w","w","w",".","w","3",".","o","r","g","/","2","0","0","1","/","X","M","L","S","c","h","e","m","a","#">>
    ELSE IF prefix = <<"r","d","f","s">> THEN <<"h","t","t","p",":","/","/","w","w","w",".","w","3",".","o","r","g","/","2","0","0","0","/","0","1","/","r","d","f","-","s","c","h","e","m","a","#">>
    ELSE <<"h","t","t","p",":","/","/","u","s","e","f","u","l","i","n","c",".","c","o","m","/","n","s","/","d","o","a","p","#">>

\* Characters a Turtle IRIREF cannot hold
IriForbidden == {" ", "<", ">", "\"", "{", "}", "|", "^", "\\", "\n"}

\* A short quoted literal ends at the first unescaped quote and holds no raw
\* line break; every backslash starts an escape
RECURSIVE LiteralBodyOk(_, _)
LiteralBodyOk(text, k) ==
    IF k > Len(text) THEN TRUE
    ELSE IF text[k] = "\\"
         THEN /\ k < Len(text)
              /\ text[k + 1] \in {"\\", "\"", "n", "r", "t"}
              /\ LiteralBodyOk(text, k + 2)
         ELSE /\ text[k] \notin {"\"", "\n", "\r"}
              /\ LiteralBodyOk(text, k + 1)

RECURSIVE Unescape(_, _)
Unescape(text, k) ==
    IF k > Len(text) THEN <<>>
    ELSE IF text[k] = "\\"
         THEN <<(IF text[k + 1] = "n" THEN "\n"
                 ELSE IF text[k + 1] = "r" THEN "\r"
                 ELSE IF text[k + 1] = "t" THEN "\t"
                 ELSE text[k + 1])>> \o Unescape(text, k + 2)
         ELSE <<text[k]>> \o Unescape(text, k + 1)

\* The token is one the Turtle grammar accepts, given the declared prefixes
TokenOk(prefixes, tok) ==
    IF tok.kind = "iri" THEN \A k \in 1..Len(tok.text) : tok.text[k] \notin IriForbidden
    ELSE IF tok.kind = "literal" THEN LiteralBodyOk(tok.text, 1)
    ELSE IF tok.kind = "anon" THEN TRUE
    ELSE \/ tok.text \in {<<"a">>, <<"t","r","u","e">>, <<"f","a","l","s","e">>}
         \/ StartsWith(tok.text, <<"_",":">>) /\ Len(tok.text) > 2
         \/ /\ Includes(tok.text, <<":">>)
            /\ SplitFirst(tok.text, <<":">>) \in prefixes

\* The term the parser makes of an accepted token
TermOf(tok) ==
    IF tok.kind = "iri" THEN NamedNode(tok.text)
    ELSE IF tok.kind = "literal" THEN Literal(Unescape(tok.text, 1), tok.lang)
    ELSE IF tok.kind = "anon" THEN BlankNode(tok.text)
    ELSE IF tok.text = <<"a">> THEN NamedNode(<<"h","t","t","p",":","/","/","w","w","w",".","w","3",".","o","r","g","/","1","9","9","9","/","0","2","/","2","2","-","r","d","f","-","s","y","n","t","a","x","-","n","s","#","t","y","p","e">>)
    ELSE IF tok.text \in {<<"t","r","u","e">>, <<"f","a","l","s","e">>} THEN Literal(tok.text, <<>>)
    ELSE IF StartsWith(tok.text, <<"_",":">>) THEN BlankNode(SubSeq(tok.text, 3, Len(tok.text)))
    ELSE NamedNode(PrefixIri(SplitFirst(tok.text, <<":">>))
                   \o SubSeq(tok.text, Len(SplitFirst(tok.text, <<":">>)) + 2, Len(tok.text)))


\* parser.parse(ttlContent, callback): every quad of the text in its order, or
\* the error of the first token the grammar rejects
N3Parse(doc) ==
    IF \A k \in 1..Len(doc.triples) :
          /\ TokenOk(doc.prefixes, doc.triples[k].subject)
          /\ TokenOk(doc.prefixes, doc.triples[k].predicate)
          /\ TokenOk(doc.prefixes, doc.triples[k].object)
    THEN [error |-> "none",
          quads |-> [k \in 1..Len(doc.triples) |->
                        [subject |-> TermOf(doc.triples[k].subject),
                         predicate |-> TermOf(doc.triples[k].predicate),
                         object |-> TermOf(doc.triples[k].object)]]]
    ELSE [error |-> "syntax"]

----------------------------------------------------------------------------
(* Report worker: buildReportFromQuads and parseShaclReport *)


RECURSIVE FirstMatch(_, _, _, _)
\* quads.find((q) => q.predicate.value === rdf:type && q.object.value === sh:ValidationReport)
FirstMatch(quads, node, predicate, k) ==
    IF k > Len(quads) THEN 0
    ELSE IF TermEquals(quads[k].subject, node) /\ quads[k].predicate.value = predicate THEN k
    ELSE FirstMatch(quads, node, predicate, k + 1)

getObject(quads, node, predicate) ==
    LET k == FirstMatch(quads, node, predicate, 1)
    IN IF k = 0 THEN [termType |-> "None", value |-> <<>>, language |-> <<>>] ELSE quads[k].object

getObjects(quads, node, predicate) ==
    LET matching == SelectSeq(quads, LAMBDA q :
                        TermEquals(q.subject, node) /\ q.predicate.value = predicate)
    IN [k \in 1..Len(matching) |-> matching[k].object]

getValue(quads, node, predicate) == getObject(quads, node, predicate).value

getLiteralMessages(quads, node, predicate) ==
    LET objects == SelectSeq(getObjects(quads, node, predicate), LAMBDA obj : Len(obj.value) > 0)
    IN [k \in 1..Len(objects) |->
           [text |-> objects[k].value, lang |-> normalizeLang(objects[k].language)]]

RECURSIVE FirstReportQuad(_, _)
\* quads.find((q) => q.predicate.value === <<"h","t","t","p",":","/","/","w","w","w",".","w","3",".","o","r","g","/","1","9","9","9","/","0","2","/","2","2","-","r","d","f","-","s","y","n","t","a","x","-","n","s","#","t","y","p","e">> && q.object.value === (NS_sh \o <<"V","a","l","i","d","a","t","i","o","n","R","e","p","o","r","t">>))
FirstReportQuad(quads, k) ==
    IF k > Len(quads) THEN 0
    ELSE IF quads[k].predicate.value = <<"h","t","t","p",":","/","/","w","w","w",".","w","3",".","o","r","g","/","1","9","9","9","/","0","2","/","2","2","-","r","d","f","-","s","y","n","t","a","x","-","n","s","#","t","y","p","e">> /\ quads[k].object.value = (NS_sh \o <<"V","a","l","i","d","a","t","i","o","n","R","e","p","o","r","t">>) THEN k
    ELSE FirstReportQuad(quads, k + 1)

ImportedSeverityViolationOnly(severityUri) == S_Violation

\* let severity = 'Violation'; then the two endsWith tests in their order
ImportedSeverity(severityUri) ==
    LET afterWarning == IF EndsWith(severityUri, S_Warning) THEN S_Warning ELSE S_Violation
    IN IF EndsWith(severityUri, S_Info) THEN S_Info ELSE afterWarning

ImportedFinding(quads, resNode) ==
    LET sourceShapeNode == getObject(quads, resNode, (NS_sh \o <<"s","o","u","r","c","e","S","h","a","p","e">>))
        docLink == IF sourceShapeNode = [termType |-> "None", value |-> <<>>, language |-> <<>>] THEN <<>>
                   ELSE getValue(quads, sourceShapeNode, foafPage)
    IN [severity |-> ImportedSeverity(getValue(quads, resNode, (NS_sh \o <<"r","e","s","u","l","t","S","e","v","e","r","i","t","y">>))),
        focusNode |-> getValue(quads, resNode, (NS_sh \o <<"f","o","c","u","s","N","o","d","e">>)),
        path |-> getValue(quads, resNode, (NS_sh \o <<"r","e","s","u","l","t","P","a","t","h">>)),
        value |-> getValue(quads, resNode, (NS_sh \o <<"v","a","l","u","e">>)),
        message |-> getLiteralMessages(quads, resNode, (NS_sh \o <<"r","e","s","u","l","t","M","e","s","s","a","g","e">>)),
        sourceConstraintComponent |-> getValue(quads, resNode, (NS_sh \o <<"s","o","u","r","c","e","C","o","n","s","t","r","a","i","n","t","C","o","m","p","o","n","e","n","t">>)),
        sourceShape |-> sourceShapeNode.value,
        resultSeverity |-> <<>>,
        foafPage |-> docLink]


buildReportFromQuadsNoThrow(quads, now) ==
    [error |-> "none",
     report |-> [conforms |-> FALSE, violations |-> <<>>, warnings |-> <<>>, infos |-> <<>>,
                 totalViolations |-> 0, profile |-> "imported-report", timestamp |-> now]]

\* Either the thrown error or the report
buildReportFromQuads(quads, now) ==
    LET first == FirstReportQuad(quads, 1) IN
    IF first = 0 THEN [error |-> "No sh:ValidationReport found in the input."]
    ELSE
        LET reportNode == quads[first].subject
            conforms == getValue(quads, reportNode, (NS_sh \o <<"c","o","n","f","o","r","m","s">>)) = <<"t","r","u","e">>
            resultNodes == getObjects(quads, reportNode, (NS_sh \o <<"r","e","s","u","l","t">>))
            findings == [k \in 1..Len(resultNodes) |-> ImportedFinding(quads, resultNodes[k])]
            violations == SelectSeq(findings, LAMBDA f : f.severity = S_Violation)
            warnings == SelectSeq(findings, LAMBDA f : f.severity # S_Violation /\ f.severity = S_Warning)
            infos == SelectSeq(findings, LAMBDA f : f.severity # S_Violation /\ f.severity # S_Warning)
        IN [error |-> "none",
            report |-> [conforms |-> conforms,
                        violations |-> violations,
                        warnings |-> warnings,
                        infos |-> infos,
                        totalViolations |-> Len(violations),
                        profile |-> "imported-report",
                        timestamp |-> now]]

\* The promise of parseShaclReport: rejected with the parser's error or with
\* the error buildReportFromQuads throws, else resolved with the report
parseShaclReport(ttlContent, now) ==
    LET parsed == N3Parse(ttlContent)
    IN IF parsed.error # "none" THEN [error |-> "Turtle syntax error"]
       ELSE buildReportFromQuads(parsed.quads, now)

----------------------------------------------------------------------------
(* SHACLValidationService: exportReportAsTurtle and exportReportAsCSV *)


\* msg.text.replace(/\\/g, '\\\\').replace(/"/g, '\\"')
EscapeTurtle(text) == ReplaceChar(ReplaceChar(text, "\\", <<"\\","\\">>), "\"", <<"\\","\"">>)

\* The [ a sh:ValidationResult ; ... ] block of one issue, node being its label
ResultBlock(node, issue) ==
    <<Triple(AnonToken(node), RawToken(<<"a">>), RawToken(<<"s","h",":","V","a","l","i","d","a","t","i","o","n","R","e","s","u","l","t">>)),
      Triple(AnonToken(node), RawToken(<<"s","h",":","r","e","s","u","l","t","S","e","v","e","r","i","t","y">>), RawToken(<<"s","h",":">> \o issue.severity))>>
    \o (IF Len(issue.focusNode) > 0
        THEN <<Triple(AnonToken(node), RawToken(<<"s","h",":","f","o","c","u","s","N","o","d","e">>), IriToken(issue.focusNode))>>
        ELSE <<>>)
    \o (IF /\ Len(issue.path) > 0
           /\ issue.path # <<"[","o","b","j","e","c","t"," ","O","b","j","e","c","t","]">>
           /\ issue.path # <<"u","n","d","e","f","i","n","e","d">>
           /\ \/ StartsWith(issue.path, <<"h","t","t","p",":","/","/">>)
              \/ StartsWith(issue.path, <<"h","t","t","p","s",":","/","/">>)
              \/ Includes(issue.path, <<":">>)
        THEN <<Triple(AnonToken(node), RawToken(<<"s","h",":","r","e","s","u","l","t","P","a","t","h">>), IriToken(issue.path))>>
        ELSE <<>>)
    \o (IF Len(issue.value) > 0
        THEN <<Triple(AnonToken(node), RawToken(<<"s","h",":","v","a","l","u","e">>),
                      LiteralToken(EscapeTurtle(issue.value), <<>>))>>
        ELSE <<>>)
    \o [k \in 1..Len(issue.message) |->
           Triple(AnonToken(node), RawToken(<<"s","h",":","r","e","s","u","l","t","M","e","s","s","a","g","e">>),
                  LiteralToken(EscapeTurtle(issue.message[k].text), issue.message[k].lang))]
    \o (IF Len(issue.sourceConstraintComponent) > 0
        THEN <<Triple(AnonToken(node), RawToken(<<"s","h",":","s","o","u","r","c","e","C","o","n","s","t","r","a","i","n","t","C","o","m","p","o","n","e","n","t">>),
                      IF StartsWith(issue.sourceConstraintComponent, <<"s","h",":">>)
                      THEN RawToken(issue.sourceConstraintComponent)
                      ELSE IriToken(issue.sourceConstraintComponent))>>
        ELSE <<>>)
    \o (IF Len(issue.sourceShape) > 0
        THEN <<Triple(AnonToken(node), RawToken(<<"s","h",":","s","o","u","r","c","e","S","h","a","p","e">>),
                      IF StartsWith(issue.sourceShape, <<"h","t","t","p">>)
                      THEN IriToken(issue.sourceShape)
                      ELSE RawToken(issue.sourceShape))>>
        ELSE <<>>)
    \o (IF Len(issue.foafPage) > 0
        THEN <<Triple(AnonToken(node), RawToken(<<"f","o","a","f",":","p","a","g","e">>), IriToken(issue.foafPage))>>
        ELSE <<>>)

RECURSIVE ResultBlocks(_, _, _)
\* allIssues.forEach((issue, idx) => ...): sh:result [ ... ] , [ ... ]
ResultBlocks(reportNode, allIssues, idx) ==
    IF idx > Len(allIssues) THEN <<>>
    ELSE <<Triple(AnonToken(reportNode), RawToken(<<"s","h",":","r","e","s","u","l","t">>),
                  AnonToken(<<"r">> \o NatString(idx - 1)))>>
         \o ResultBlock(<<"r">> \o NatString(idx - 1), allIssues[idx])
         \o ResultBlocks(reportNode, allIssues, idx + 1)

\* The texts taken from the application's configuration (name, version,
\* links, profile name) are well-formed and written as fixed texts here
exportReportAsTurtle(r) ==
    LET node == <<"b","0">>
        creator == <<"b","1">>
        release == <<"b","2">>
        standard == <<"b","3">>
        allIssues == r.violations \o r.warnings \o r.infos
    IN [prefixes |-> {<<"s","h">>, <<"d","c","t">>, <<"d","c","a","t">>, <<"f","o","a","f">>, <<"x","s","d">>, <<"r","d","f","s">>, <<"d","o","a","p">>},
        triples |->
          <<Triple(AnonToken(node), RawToken(<<"a">>), RawToken(<<"s","h",":","V","a","l","i","d","a","t","i","o","n","R","e","p","o","r","t">>)),
            Triple(AnonToken(node), RawToken(<<"s","h",":","c","o","n","f","o","r","m","s">>),
                   RawToken(IF r.conforms THEN <<"t","r","u","e">> ELSE <<"f","a","l","s","e">>)),
            Triple(AnonToken(node), RawToken(<<"d","c","t",":","c","r","e","a","t","e","d">>), LiteralToken(<<"n","o","w">>, <<>>)),
            Triple(AnonToken(node), RawToken(<<"d","c","t",":","c","r","e","a","t","o","r">>), AnonToken(creator)),
            Triple(AnonToken(creator), RawToken(<<"a">>), RawToken(<<"f","o","a","f",":","A","g","e","n","t">>)),
            Triple(AnonToken(creator), RawToken(<<"f","o","a","f",":","n","a","m","e">>), LiteralToken(<<"a","p","p">>, <<>>)),
            Triple(AnonToken(creator), RawToken(<<"d","o","a","p",":","r","e","l","e","a","s","e">>), AnonToken(release)),
            Triple(AnonToken(release), RawToken(<<"a">>), RawToken(<<"d","o","a","p",":","V","e","r","s","i","o","n">>)),
            Triple(AnonToken(release), RawToken(<<"d","o","a","p",":","r","e","v","i","s","i","o","n">>), LiteralToken(<<"1">>, <<>>)),
            Triple(AnonToken(release), RawToken(<<"d","o","a","p",":","c","r","e","a","t","e","d">>), LiteralToken(<<"n","o","w">>, <<>>)),
            Triple(AnonToken(creator), RawToken(<<"f","o","a","f",":","h","o","m","e","p","a","g","e">>), IriToken(<<"h","t","t","p",":","/","/","a","p","p">>)),
            Triple(AnonToken(creator), RawToken(<<"f","o","a","f",":","p","a","g","e">>), IriToken(<<"h","t","t","p",":","/","/","r","e","p","o">>)),
            Triple(AnonToken(creator), RawToken(<<"r","d","f","s",":","s","e","e","A","l","s","o">>), IriToken(<<"h","t","t","p",":","/","/","s","e","e">>)),
            Triple(AnonToken(creator), RawToken(<<"r","d","f","s",":","c","o","m","m","e","n","t">>), LiteralToken(<<"a","p","p">>, <<>>)),
            Triple(AnonToken(node), RawToken(<<"d","c","t",":","t","i","t","l","e">>), LiteralToken(<<"t","i","t","l","e">>, <<"e","s">>)),
            Triple(AnonToken(node), RawToken(<<"d","c","t",":","t","i","t","l","e">>), LiteralToken(<<"t","i","t","l","e">>, <<"e","n">>)),
            Triple(AnonToken(node), RawToken(<<"d","c","t",":","f","o","r","m","a","t">>), IriToken(<<"h","t","t","p",":","/","/","R","D","F","_","T","U","R","T","L","E">>)),
            Triple(AnonToken(node), RawToken(<<"d","c","t",":","d","e","s","c","r","i","p","t","i","o","n">>), LiteralToken(<<"s","t","a","t","s">>, <<"e","s">>)),
            Triple(AnonToken(node), RawToken(<<"d","c","t",":","d","e","s","c","r","i","p","t","i","o","n">>), LiteralToken(<<"s","t","a","t","s">>, <<"e","n">>))>>
          \o ResultBlocks(node, allIssues, 1)
          \o <<Triple(AnonToken(standard), RawToken(<<"a">>), RawToken(<<"d","c","t",":","S","t","a","n","d","a","r","d">>)),
               Triple(AnonToken(standard), RawToken(<<"d","c","t",":","t","i","t","l","e">>), LiteralToken(<<"p","r","o","f","i","l","e">>, <<"e","s">>)),
               Triple(AnonToken(standard), RawToken(<<"d","c","t",":","t","i","t","l","e">>), LiteralToken(<<"p","r","o","f","i","l","e">>, <<"e","n">>)),
               Triple(AnonToken(standard), RawToken(<<"d","c","t",":","i","d","e","n","t","i","f","i","e","r">>), LiteralToken(<<"p","r","o","f","i","l","e">>, <<>>)),
               Triple(AnonToken(standard), RawToken(<<"r","d","f","s",":","c","o","m","m","e","n","t">>), LiteralToken(<<"u","s","e","d">>, <<"e","s">>)),
               Triple(AnonToken(standard), RawToken(<<"r","d","f","s",":","c","o","m","m","e","n","t">>), LiteralToken(<<"u","s","e","d">>, <<"e","n">>))>>]

escapeCsvValue(value) ==
    IF Includes(value, <<",">>) \/ Includes(value, <<"\"">>) \/ Includes(value, <<"\n">>)
    THEN <<"\"">> \o ReplaceChar(value, "\"", <<"\"","\"">>) \o <<"\"">>
    ELSE value

CsvHeaders ==
    <<<<"S","e","v","e","r","i","t","y">>, <<"F","o","c","u","s"," ","N","o","d","e">>, <<"P","a","t","h">>, <<"V","a","l","u","e">>, <<"M","e","s","s","a","g","e">>, <<"S","o","u","r","c","e"," ","S","h","a","p","e">>,
      <<"C","o","n","s","t","r","a","i","n","t"," ","C","o","m","p","o","n","e","n","t">>>>

CsvRow(issue) ==
    Join(<<issue.severity,
           escapeCsvValue(issue.focusNode),
           escapeCsvValue(issue.path),
           escapeCsvValue(issue.value),
           escapeCsvValue(Join([k \in 1..Len(issue.message) |-> issue.message[k].text],
                               <<" ","|"," ">>)),
           escapeCsvValue(issue.sourceShape),
           escapeCsvValue(issue.sourceConstraintComponent)>>, <<",">>)

exportReportAsCSV(r) ==
    LET allIssues == r.violations \o r.warnings \o r.infos
    IN Join(<<Join(CsvHeaders, <<",">>)>> \o [k \in 1..Len(allIssues) |-> CsvRow(allIssues[k])],
            <<"\n">>)

----------------------------------------------------------------------------
(* Texts a user imports into the report viewer *)

\* The sh:resultSeverity a result block of an imported text may hold
SeverityTokens ==
    {RawToken(<<"s","h",":","V","i","o","l","a","t","i","o","n">>), RawToken(<<"s","h",":","W","a","r","n","i","n","g">>), RawToken(<<"s","h",":","I","n","f","o">>),
     IriToken(<<"u","r","n",":","s","e","v",":","L","o","w">>), Null}

FocusIri(k) == <<"u","r","n",":","f">> \o NatString(k)

ImportedResult(k, severityToken) ==
    <<Triple(RawToken(<<"_",":","r","e","p">>), RawToken(<<"s","h",":","r","e","s","u","l","t">>), AnonToken(<<"n">> \o NatString(k))),
      Triple(AnonToken(<<"n">> \o NatString(k)), RawToken(<<"a">>), RawToken(<<"s","h",":","V","a","l","i","d","a","t","i","o","n","R","e","s","u","l","t">>)),
      Triple(AnonToken(<<"n">> \o NatString(k)), RawToken(<<"s","h",":","f","o","c","u","s","N","o","d","e">>), IriToken(FocusIri(k)))>>
    \o (IF severityToken = Null THEN <<>>
        ELSE <<Triple(AnonToken(<<"n">> \o NatString(k)), RawToken(<<"s","h",":","r","e","s","u","l","t","S","e","v","e","r","i","t","y">>), severityToken)>>)
    \o <<Triple(AnonToken(<<"n">> \o NatString(k)), RawToken(<<"s","h",":","s","o","u","r","c","e","S","h","a","p","e">>), IriToken(<<"h","t","t","p",":","/","/","s">>)),
         Triple(AnonToken(<<"n">> \o NatString(k)), RawToken(<<"s","h",":","r","e","s","u","l","t","M","e","s","s","a","g","e">>),
                LiteralToken(<<"m">>, <<"e","s">>))>>

RECURSIVE ImportedResults(_, _)
ImportedResults(severityTokens, k) ==
    IF k = 0 THEN <<>>
    ELSE ImportedResults(severityTokens, k - 1) \o ImportedResult(k, severityTokens[k])

\* A report text: a node that is no report but has a sh:result, then the
\* report node with one result block per entry of severityTokens
ReportDoc(severityTokens) ==
    [blank |-> FALSE,
     prefixes |-> {<<"s","h">>},
     triples |->
        <<Triple(IriToken(<<"u","r","n",":","o","t","h","e","r">>), RawToken(<<"s","h",":","r","e","s","u","l","t">>), IriToken(<<"u","r","n",":","x">>)),
          Triple(RawToken(<<"_",":","r","e","p">>), RawToken(<<"a">>), RawToken(<<"s","h",":","V","a","l","i","d","a","t","i","o","n","R","e","p","o","r","t">>)),
          Triple(RawToken(<<"_",":","r","e","p">>), RawToken(<<"s","h",":","c","o","n","f","o","r","m","s">>),
                 RawToken(IF Len(severityTokens) = 0 THEN <<"t","r","u","e">> ELSE <<"f","a","l","s","e">>))>>
        \o ImportedResults(severityTokens, Len(severityTokens))]

\* Well-formed Turtle that describes no validation report
NoReportDoc ==
    [blank |-> FALSE,
     prefixes |-> {<<"s","h">>, <<"d","c","a","t">>},
     triples |-> <<Triple(IriToken(<<"u","r","n",":","c">>), RawToken(<<"a">>), RawToken(<<"d","c","a","t",":","C","a","t","a","l","o","g">>)),
                   Triple(IriToken(<<"u","r","n",":","c">>), RawToken(<<"s","h",":","r","e","s","u","l","t">>), IriToken(<<"u","r","n",":","x">>))>>]

\* A report text that uses a prefix it does not declare
SyntaxErrorDoc ==
    [blank |-> FALSE,
     prefixes |-> {},
     triples |-> <<Triple(RawToken(<<"_",":","r","e","p">>), RawToken(<<"a">>), RawToken(<<"s","h",":","V","a","l","i","d","a","t","i","o","n","R","e","p","o","r","t">>))>>]
ReportDocs == {ReportDoc(sevs) : sevs \in SeqsUpTo(SeverityTokens, MaxResults)}
ImportDocs == ReportDocs \cup {NoReportDoc, SyntaxErrorDoc, BlankText}

----------------------------------------------------------------------------
(* ReportViewer: state and handlers *)

ResultsIdle ==
    /\ report = Null
    /\ rows = <<>>
    /\ summary = [violation |-> 0, warning |-> 0, info |-> 0, total |-> 0]
    /\ history = <<>>
    /\ severityFilter = <<"a","l","l">>
    /\ flattenRuns = <<>>
    /\ reportChanges = 0

ViewerInit == ViewerIdle /\ ResultsIdle /\ ValidatorIdle

\* Textarea onChange: setInputText(e.target.value); the text is typed or
\* pasted into an empty field, or the field is emptied
PasteText ==
    /\ viewMode = "import"
    /\ \E doc \in (IF viewerIsLoading THEN {NoReportDoc, SyntaxErrorDoc, BlankText} ELSE ImportDocs) :
        /\ doc # inputText
        /\ inputText.blank \/ doc.blank
        /\ inputText' = doc
    /\ download' = Null
    /\ UNCHANGED <<uploadedFileName, viewerReport, viewerIsLoading, error, viewMode, parseCall>>

\* onDrop and the FileReader's onload: handleFileContent(content, file.name);
\* an empty file is ignored
DropFile ==
    /\ viewMode = "import"
    /\ uploadedFileName = Null
    /\ \E doc \in (IF viewerIsLoading THEN {NoReportDoc, SyntaxErrorDoc, BlankText} ELSE ImportDocs) :
        /\ ~doc.blank
        /\ inputText.blank
        /\ inputText' = doc
    /\ uploadedFileName' = [name |-> "report.ttl"]
    /\ download' = Null
    /\ UNCHANGED <<viewerReport, viewerIsLoading, error, viewMode, parseCall>>

clearFile ==
    /\ viewMode = "import"
    /\ uploadedFileName # Null
    /\ inputText' = BlankText
    /\ uploadedFileName' = Null
    /\ error' = Null
    /\ download' = Null
    /\ UNCHANGED <<viewerReport, viewerIsLoading, viewMode, parseCall>>

\* handleProcess up to its await; the button is disabled while isLoading
handleProcess ==
    /\ viewMode = "import"
    /\ ~inputText.blank
    /\ ~viewerIsLoading
    /\ viewerIsLoading' = TRUE
    /\ error' = Null
    /\ parseCall' = inputText
    /\ download' = Null
    /\ UNCHANGED <<inputText, uploadedFileName, viewerReport, viewMode>>

\* handleProcess after its await: try, catch and finally
handleProcessSettle ==
    /\ parseCall # Null
    /\ LET outcome == parseShaclReport(parseCall, 0)
       IN IF outcome.error = "none"
          THEN /\ viewerReport' = outcome.report
               /\ viewMode' = "results"
               /\ error' = error
          ELSE /\ error' = [prefix |-> "viewer.error", message |-> outcome.error]
               /\ UNCHANGED <<viewerReport, viewMode>>
    /\ viewerIsLoading' = FALSE
    /\ parseCall' = Null
    /\ download' = Null
    /\ UNCHANGED <<inputText, uploadedFileName>>

handleReset ==
    /\ viewMode = "results"
    /\ viewerReport # Null
    /\ viewerReport' = Null
    /\ inputText' = BlankText
    /\ uploadedFileName' = Null
    /\ error' = Null
    /\ viewMode' = "import"
    /\ download' = Null
    /\ UNCHANGED <<viewerIsLoading, parseCall>>

SegmentSubsetAllLists(r, severity) == r

\* The subset report of exportSegment
SegmentSubset(r, severity) ==
    [r EXCEPT !.violations = IF severity = S_Violation THEN r.violations ELSE <<>>,
              !.warnings = IF severity = S_Warning THEN r.warnings ELSE <<>>,
              !.infos = IF severity = S_Info THEN r.infos ELSE <<>>,
              !.totalViolations = IF severity = S_Violation THEN Len(r.violations) ELSE 0]

exportSegment ==
    /\ viewMode = "results"
    /\ viewerReport # Null
    /\ \E severity \in {S_Violation, S_Warning, S_Info}, format \in {"ttl", "csv"} :
        download' = [name |-> <<"shacl", ToLowerCase(severity), format>>,
                     type |-> IF format = "ttl" THEN "text/turtle" ELSE "text/csv",
                     payload |-> IF format = "ttl"
                                 THEN exportReportAsTurtle(SegmentSubset(viewerReport, severity))
                                 ELSE exportReportAsCSV(SegmentSubset(viewerReport, severity))]
    /\ UNCHANGED <<inputText, uploadedFileName, viewerReport, viewerIsLoading, error, viewMode,
                   parseCall>>

ViewerNext ==
    /\ \/ PasteText
       \/ DropFile
       \/ clearFile
       \/ handleProcess
       \/ handleProcessSettle
       \/ handleReset
       \/ exportSegment
    /\ UNCHANGED <<resultsVars, validatorVars>>

SpecViewer == ViewerInit /\ [][ViewerNext]_vars

----------------------------------------------------------------------------
(* Report viewer: claims *)

\* The severity the claim assigns to a result block by its sh:resultSeverity
ExpectedSeverity(severityToken) ==
    IF severityToken = RawToken(<<"s","h",":","W","a","r","n","i","n","g">>) THEN S_Warning
    ELSE IF severityToken = RawToken(<<"s","h",":","I","n","f","o">>) THEN S_Info
    ELSE S_Violation

AllFindings(r) == r.violations \o r.warnings \o r.infos

ListOfSeverity(r, sev) ==
    IF sev = S_Violation THEN r.violations
    ELSE IF sev = S_Warning THEN r.warnings
    ELSE r.infos

FocusNodes(findings) == [k \in 1..Len(findings) |-> findings[k].focusNode]

\* r holds one finding per result block of ReportDoc(sevs), each in the list
\* of its expected severity and in no other
ImportedAsExpected(sevs, r) ==
    /\ Len(AllFindings(r)) = Len(sevs)
    /\ \A k \in 1..Len(sevs) :
        /\ Cardinality({j \in 1..Len(AllFindings(r)) :
                            AllFindings(r)[j].focusNode = FocusIri(k)}) = 1
        /\ \E j \in 1..Len(ListOfSeverity(r, ExpectedSeverity(sevs[k]))) :
            /\ ListOfSeverity(r, ExpectedSeverity(sevs[k]))[j].focusNode = FocusIri(k)
            /\ ListOfSeverity(r, ExpectedSeverity(sevs[k]))[j].severity = ExpectedSeverity(sevs[k])

C8_NoReportIsAnError ==
    [][(parseCall # Null /\ parseCall' = Null /\ parseCall = NoReportDoc) =>
          /\ error' = [prefix |-> "viewer.error",
                       message |-> "No sh:ValidationReport found in the input."]
          /\ viewMode' = "import"
          /\ viewerReport' = Null
          /\ viewerIsLoading' = FALSE]_vars

\* The import of a text without a report node has failed
C8_Witness ==
    /\ error # Null
    /\ error.message = "No sh:ValidationReport found in the input."
    /\ inputText = NoReportDoc
    /\ viewMode = "import"
    /\ ~viewerIsLoading

RECURSIVE SplitOn(_, _)
\* The parts of s between the occurrences of the character c
SplitOn(s, c) ==
    IF \A k \in 1..Len(s) : s[k] # c THEN <<s>>
    ELSE LET p == CHOOSE k \in 1..Len(s) : s[k] = c /\ \A m \in 1..(k - 1) : s[m] # c
         IN <<SubSeq(s, 1, p - 1)>> \o SplitOn(SubSeq(s, p + 1, Len(s)), c)

\* The object tokens of the triples of a Turtle text with the given subject
\* label and predicate
WrittenObjects(doc, label, predicate) ==
    LET matching == SelectSeq(doc.triples, LAMBDA t :
                        t.subject.text = label /\ t.predicate = RawToken(predicate))
    IN [k \in 1..Len(matching) |-> matching[k].object]

\* The Turtle segment holds one result block per expected finding, in order,
\* each with the severity asked for
TurtleSegmentHolds(doc, sev, expected) ==
    LET results == WrittenObjects(doc, <<"b","0">>, <<"s","h",":","r","e","s","u","l","t">>)
    IN /\ Len(results) = Len(expected)
       /\ \A k \in 1..Len(results) :
            /\ WrittenObjects(doc, results[k].text, <<"s","h",":","f","o","c","u","s","N","o","d","e">>)
                 = <<IriToken(expected[k].focusNode)>>
            /\ WrittenObjects(doc, results[k].text, <<"s","h",":","r","e","s","u","l","t","S","e","v","e","r","i","t","y">>)
                 = <<RawToken(<<"s","h",":">> \o sev)>>

\* The CSV segment holds the header line and one line per expected finding
CsvSegmentHolds(text, sev, expected) ==
    LET lines == SplitOn(text, "\n")
    IN /\ Len(lines) = 1 + Len(expected)
       /\ \A k \in 1..Len(expected) :
            LET fields == SplitOn(lines[k + 1], ",")
            IN /\ Len(fields) = 7
               /\ fields[1] = sev
               /\ fields[2] = expected[k].focusNode

\* C10: a segment export for one severity holds exactly the findings of that
\* severity of the report the viewer holds, and none of the two other
\* severities, as Turtle and as CSV.
C10_SegmentHoldsOneSeverity ==
    download # Null =>
        LET sev == CHOOSE s \in {S_Violation, S_Warning, S_Info} : ToLowerCase(s) = download.name[2]
            expected == SelectSeq(AllFindings(viewerReport), LAMBDA f : f.severity = sev)
        IN IF download.name[3] = "ttl"
           THEN TurtleSegmentHolds(download.payload, sev, expected)
           ELSE CsvSegmentHolds(download.payload, sev, expected)

\* The warnings of a report that also has violations and infos are exported
C10_Witness ==
    /\ download # Null
    /\ download.name[2] = <<"w","a","r","n","i","n","g">>
    /\ download.name[3] = "ttl"
    /\ Len(viewerReport.violations) > 0
    /\ Len(viewerReport.warnings) > 0
    /\ Len(viewerReport.infos) > 0

----------------------------------------------------------------------------
(* SHACLValidationService: shapes, data and the SHACL engine *)

\* mqa-config.json: the profile of the README's example, with two branches,
\* and a second version configured next to the default one
mqaConfigData ==
    [defaultVersion |-> "1.0.0",
     defaultBranch |-> "main",
     versions |-> [version \in {"1.0.0", "1.1.0"} |->
        [shaclFiles |-> << <<"https://raw.githubusercontent.com/datosgobes/DCAT-AP-ES/",
                             "{branch}", "/shacl/", version, "/dcat_ap_es.ttl">> >>]]]

\* file.replace('{branch}', selectedBranch), a file being kept as the pieces
\* around its placeholder
ReplaceBranch(file, selectedBranch) ==
    IF \E k \in 1..Len(file) : file[k] = "{branch}"
    THEN LET p == CHOOSE k \in 1..Len(file) :
                    file[k] = "{branch}" /\ \A m \in 1..(k - 1) : file[m] # "{branch}"
         IN [k \in 1..Len(file) |-> IF k = p THEN selectedBranch ELSE file[k]]
    ELSE file

\* branch is "" when it is undefined
getSHACLFilesForProfile(profile, branch) ==
    IF profile # "dcat_ap_es" THEN <<>>
    ELSE LET selectedBranch == IF branch # "" THEN branch ELSE mqaConfigData.defaultBranch
             version == mqaConfigData.defaultVersion
             shaclFiles == mqaConfigData.versions[version].shaclFiles
         IN [k \in 1..Len(shaclFiles) |-> ReplaceBranch(shaclFiles[k], selectedBranch)]

\* const cacheKey = branch ? `${profile}:${branch}` : profile
CacheKey(profile, branch) == IF branch # "" THEN <<profile, ":", branch>> ELSE <<profile>>

TurtleDoc(prefixes, triples) == [blank |-> FALSE, prefixes |-> prefixes, triples |-> triples]

\* The shapes file of the main branch: a shape of each severity, one of them
\* with a severity of the publisher's own
MainShapesDoc ==
    TurtleDoc({<<"s","h">>, <<"f","o","a","f">>},
      <<Triple(IriToken(<<"h","t","t","p",":","/","/","s","/","V">>), RawToken(<<"a">>), RawToken(<<"s","h",":","N","o","d","e","S","h","a","p","e">>)),
        Triple(IriToken(<<"h","t","t","p",":","/","/","s","/","V">>), RawToken(<<"f","o","a","f",":","p","a","g","e">>), IriToken(<<"h","t","t","p",":","/","/","d","o","c","/","V">>)),
        Triple(IriToken(<<"h","t","t","p",":","/","/","s","/","W">>), RawToken(<<"a">>), RawToken(<<"s","h",":","N","o","d","e","S","h","a","p","e">>)),
        Triple(IriToken(<<"h","t","t","p",":","/","/","s","/","W">>), RawToken(<<"s","h",":","s","e","v","e","r","i","t","y">>), RawToken(<<"s","h",":","W","a","r","n","i","n","g">>)),
        Triple(IriToken(<<"h","t","t","p",":","/","/","s","/","W">>), RawToken(<<"s","h",":","m","e","s","s","a","g","e">>), LiteralToken(<<"w">>, <<"e","s","-","E","S">>)),
        Triple(IriToken(<<"h","t","t","p",":","/","/","s","/","I">>), RawToken(<<"a">>), RawToken(<<"s","h",":","N","o","d","e","S","h","a","p","e">>)),
        Triple(IriToken(<<"h","t","t","p",":","/","/","s","/","I">>), RawToken(<<"s","h",":","s","e","v","e","r","i","t","y">>), RawToken(<<"s","h",":","I","n","f","o">>)),
        Triple(IriToken(<<"h","t","t","p",":","/","/","s","/","L">>), RawToken(<<"a">>), RawToken(<<"s","h",":","N","o","d","e","S","h","a","p","e">>)),
        Triple(IriToken(<<"h","t","t","p",":","/","/","s","/","L">>), RawToken(<<"s","h",":","s","e","v","e","r","i","t","y">>), IriToken(<<"u","r","n",":","s","e","v",":","L","o","w">>))>>)

\* The shapes file of the develop branch
DevelopShapesDoc ==
    TurtleDoc({<<"s","h">>},
      <<Triple(IriToken(<<"h","t","t","p",":","/","/","s","/","W">>), RawToken(<<"a">>), RawToken(<<"s","h",":","N","o","d","e","S","h","a","p","e">>)),
        Triple(IriToken(<<"h","t","t","p",":","/","/","s","/","W">>), RawToken(<<"s","h",":","s","e","v","e","r","i","t","y">>), RawToken(<<"s","h",":","W","a","r","n","i","n","g">>))>>)

\* The text the server holds for a shapes file
RemoteShapesText(url) ==
    IF \E k \in 1..Len(url) : url[k] = "1.1.0"
    THEN TurtleDoc({<<"s","h">>},
            <<Triple(IriToken(<<"h","t","t","p",":","/","/","s","/","N">>), RawToken(<<"a">>),
                     RawToken(<<"s","h",":","N","o","d","e","S","h","a","p","e">>))>>)
    ELSE IF \E k \in 1..Len(url) : url[k] = "develop" THEN DevelopShapesDoc ELSE MainShapesDoc

\* Shapes a user supplies: well-formed, and with an undeclared prefix
CustomShapesDoc ==
    TurtleDoc({<<"s","h">>},
      <<Triple(IriToken(<<"h","t","t","p",":","/","/","s","/","C">>), RawToken(<<"a">>), RawToken(<<"s","h",":","N","o","d","e","S","h","a","p","e">>)),
        Triple(IriToken(<<"h","t","t","p",":","/","/","s","/","C">>), RawToken(<<"s","h",":","s","e","v","e","r","i","t","y">>), RawToken(<<"s","h",":","I","n","f","o">>))>>)

BadShapesDoc ==
    TurtleDoc({},
      <<Triple(IriToken(<<"h","t","t","p",":","/","/","s","/","C">>), RawToken(<<"a">>), RawToken(<<"s","h",":","N","o","d","e","S","h","a","p","e">>))>>)


\* Data a user validates: a catalog with one dataset, a text with prefixes
\* only, and a text with an undeclared prefix
DataDoc ==
    TurtleDoc({<<"d","c","a","t">>},
      <<Triple(IriToken(<<"u","r","n",":","d","1">>), RawToken(<<"a">>), RawToken(<<"d","c","a","t",":","D","a","t","a","s","e","t">>))>>)


BadDataDoc ==
    TurtleDoc({},
      <<Triple(IriToken(<<"u","r","n",":","d","1">>), RawToken(<<"a">>), RawToken(<<"d","c","a","t",":","D","a","t","a","s","e","t">>))>>)


\* dataset.add(q): a dataset keeps each quad once, in insertion order
datasetAdd(dataset, q) ==
    IF \E k \in 1..Len(dataset) : dataset[k] = q THEN dataset ELSE Append(dataset, q)

RECURSIVE datasetAddAll(_, _, _)
\* quads.forEach((q) => dataset.add(q))
datasetAddAll(dataset, quads, k) ==
    IF k > Len(quads) THEN dataset
    ELSE datasetAddAll(datasetAdd(dataset, quads[k]), quads, k + 1)

\* parseSHACLContent: the quads of the text or the parser's error (the texts
\* here hold no sh:pattern for cleanSHACLRegexPatterns to rewrite)
parseSHACLContent(content) == N3Parse(content)

RECURSIVE parseCustomSHACLFrom(_, _, _)
parseCustomSHACLFrom(shaclContents, i, dataset) ==
    IF i > Len(shaclContents) THEN [error |-> "none", dataset |-> dataset]
    ELSE LET parsed == parseSHACLContent(shaclContents[i])
         IN IF parsed.error # "none"
            THEN [error |-> "Invalid SHACL syntax", file |-> i]
            ELSE parseCustomSHACLFrom(shaclContents, i + 1,
                                      datasetAddAll(dataset, parsed.quads, 1))

\* parseCustomSHACL: the quads of all files, or the error of the first file
\* that does not parse
parseCustomSHACL(shaclContents) == parseCustomSHACLFrom(shaclContents, 1, <<>>)

RECURSIVE FetchShapesFrom(_, _, _, _)
\* The loop of getSHACLShapes over the profile's files; ok[k] tells whether
\* the response for file k was ok, a file that was not is skipped
FetchShapesFrom(files, ok, k, dataset) ==
    IF k > Len(files) THEN dataset
    ELSE IF ~ok[k] THEN FetchShapesFrom(files, ok, k + 1, dataset)
    ELSE FetchShapesFrom(files, ok, k + 1,
            datasetAddAll(dataset, parseSHACLContent(RemoteShapesText(files[k])).quads, 1))

\* parseRDFContent: RDFService.parseRDF and, when it throws, the N3 parser
parseRDFContent(content) ==
    LET parsed == N3Parse(content)
    IN IF parsed.error # "none" THEN [error |-> "syntax"]
       ELSE [error |-> "none", dataset |-> datasetAddAll(<<>>, parsed.quads, 1)]

----------------------------------------------------------------------------
(* SHACLValidationService: the engine's results and the report *)

\* dataset.match(subject, predicate, null, null): the objects, in order
datasetMatch(dataset, subject, predicate) ==
    LET matching == SelectSeq(dataset, LAMBDA q :
                        TermEquals(q.subject, subject) /\ q.predicate.value = predicate)
    IN [k \in 1..Len(matching) |-> matching[k].object]

\* The node shapes a shapes graph declares, in order
ShapeNodes(shapes) ==
    LET typed == SelectSeq(shapes, LAMBDA q :
                     q.predicate.value = <<"h","t","t","p",":","/","/","w","w","w",".","w","3",".","o","r","g","/","1","9","9","9","/","0","2","/","2","2","-","r","d","f","-","s","y","n","t","a","x","-","n","s","#","t","y","p","e">> /\ q.object.value = (NS_sh \o <<"N","o","d","e","S","h","a","p","e">>))
    IN [k \in 1..Len(typed) |-> typed[k].subject]

\* The nodes of the data graph, in order
DataNodes(data) ==
    LET first == SelectSeq([k \in 1..Len(data) |-> k], LAMBDA k :
                     \A m \in 1..(k - 1) : ~TermEquals(data[m].subject, data[k].subject))
    IN [k \in 1..Len(first) |-> data[first[k]].subject]

\* Every (shape, focus node) the engine checks, shape by shape
EnginePairs(shapes, data) ==
    LET shapeNodes == ShapeNodes(shapes)
        dataNodes == DataNodes(data)
    IN [k \in 1..(Len(shapeNodes) * Len(dataNodes)) |->
          [shape |-> shapeNodes[((k - 1) \div Len(dataNodes)) + 1],
           focusNode |-> dataNodes[((k - 1) % Len(dataNodes)) + 1]]]

\* The result the engine reports for a focus node that fails a shape: the
\* shape's sh:severity (sh:Violation by default) and its sh:message values
EngineResult(shapes, pair) ==
    LET severities == datasetMatch(shapes, pair.shape, (NS_sh \o <<"s","e","v","e","r","i","t","y">>))
    IN [focusNode |-> pair.focusNode,
        path |-> [termType |-> "None", value |-> <<>>, language |-> <<>>],
        value |-> [termType |-> "None", value |-> <<>>, language |-> <<>>],
        message |-> [array |-> datasetMatch(shapes, pair.shape, (NS_sh \o <<"m","e","s","s","a","g","e">>))],
        severity |-> IF Len(severities) > 0 THEN severities[1] ELSE NamedNode((NS_sh \o <<"V","i","o","l","a","t","i","o","n">>)),
        sourceConstraintComponent |-> NamedNode(NS_sh \o <<"N","o","d","e","C","o","n","s","t","r","a","i","n","t","C","o","m","p","o","n","e","n","t">>),
        sourceShape |-> pair.shape,
        resultSeverity |-> [termType |-> "None", value |-> <<>>, language |-> <<>>]]

\* validator.validate({ dataset: data }) when the pairs at the positions
\* failing fail
EngineResults(shapes, data, failing) ==
    LET pairs == EnginePairs(shapes, data)
        kept == SelectSeq([k \in 1..Len(pairs) |-> k], LAMBDA k : k \in failing)
    IN [k \in 1..Len(kept) |-> EngineResult(shapes, pairs[kept[k]])]

\* The values conforms can take in the engine's report: true without
\* results, false with a violation, and either when all results are milder
EngineConforms(results) ==
    IF Len(results) = 0 THEN {TRUE}
    ELSE IF \E k \in 1..Len(results) : results[k].severity.value = (NS_sh \o <<"V","i","o","l","a","t","i","o","n">>) THEN {FALSE}
    ELSE BOOLEAN

\* extractTermValue for the terms and undefined ([termType |-> "None", value |-> <<>>, language |-> <<>>])
extractTermValue(term) == term.value

\* extractPath for a path that is one term or undefined
extractPath(path) == extractTermValue(path)

\* The service's normalizeLang: lang.toLowerCase().split('-')[0]
serviceNormalizeLang(lang) ==
    IF Len(lang) = 0 THEN <<>> ELSE SplitFirst(ToLowerCase(lang), <<"-">>)

extractMessages(result, preferredLang) ==
    IF result.message # Null
    THEN LET raw == result.message.array
             kept == SelectSeq(raw, LAMBDA literal : Len(extractTermValue(literal)) > 0)
         IN [k \in 1..Len(kept) |->
                [text |-> extractTermValue(kept[k]),
                 lang |-> serviceNormalizeLang(kept[k].language)]]
    ELSE LET path == extractPath(result.path)
             value == extractTermValue(result.value)
         IN <<[text |-> <<"V","a","l","i","d","a","t","i","o","n"," ","i","s","s","u","e"," ","a","t"," ">>
                        \o (IF Len(path) > 0 THEN path ELSE <<"u","n","k","n","o","w","n"," ","p","a","t","h">>)
                        \o (IF Len(value) > 0 THEN <<" ","w","i","t","h"," ","v","a","l","u","e"," ">> \o value ELSE <<>>),
               lang |-> preferredLang]>>

\* A stand-in that files every result as a violation
mapSeverityAlwaysViolation(severity) == S_Violation

mapSeverityFromSHACLEngine(severity) ==
    LET value == ToLowerCase(extractTermValue(severity))
    IN IF Includes(value, <<"w","a","r","n","i","n","g">>) THEN S_Warning
       ELSE IF Includes(value, <<"i","n","f","o">>) THEN S_Info
       ELSE S_Violation

resolveFoafPage(shapes, sourceShape) ==
    IF Len(sourceShape) = 0 THEN <<>>
    ELSE IF ~StartsWith(sourceShape, <<"h","t","t","p">>) THEN <<>>
    ELSE LET matches == SelectSeq(datasetMatch(shapes, NamedNode(sourceShape), foafPage),
                                  LAMBDA o : Len(extractTermValue(o)) > 0)
         IN IF Len(matches) > 0 THEN extractTermValue(matches[1]) ELSE <<>>

parseSHACLResult(engineReport, shapes, preferredLanguage) ==
    [conforms |-> engineReport.conforms,
     results |-> [k \in 1..Len(engineReport.results) |->
        LET result == engineReport.results[k] IN
        [focusNode |-> extractTermValue(result.focusNode),
         path |-> extractPath(result.path),
         value |-> extractTermValue(result.value),
         message |-> extractMessages(result, preferredLanguage),
         severity |-> mapSeverityFromSHACLEngine(result.severity),
         sourceConstraintComponent |-> extractTermValue(result.sourceConstraintComponent),
         sourceShape |-> extractTermValue(result.sourceShape),
         resultSeverity |-> extractTermValue(result.resultSeverity),
         foafPage |-> resolveFoafPage(shapes, extractTermValue(result.sourceShape))]]]

\* The one finding of the reports validateRDF makes up itself
SystemFinding(text, preferredLanguage, component, shape) ==
    [severity |-> S_Violation,
     focusNode |-> <<>>,
     path |-> <<>>,
     value |-> <<>>,
     message |-> <<[text |-> text, lang |-> preferredLanguage]>>,
     sourceConstraintComponent |-> component,
     sourceShape |-> shape,
     resultSeverity |-> <<>>,
     foafPage |-> <<>>]

SystemReport(profile, finding, now) ==
    [profile |-> profile,
     conforms |-> FALSE,
     totalViolations |-> 1,
     violations |-> <<finding>>,
     warnings |-> <<>>,
     infos |-> <<>>,
     timestamp |-> now]

NoShapesReport(profile, preferredLanguage, now) ==
    SystemReport(profile,
        SystemFinding(<<"N","o"," ","S","H","A","C","L"," ","s","h","a","p","e","s"," ","c","o","u","l","d"," ","b","e"," ","l","o","a","d","e","d"," ","f","o","r"," ","t","h","e"," ","s","e","l","e","c","t","e","d"," ","p","r","o","f","i","l","e",".">>,
                      preferredLanguage, <<"s","y","s","t","e","m",":","N","o","S","h","a","p","e","s">>, <<"s","y","s","t","e","m",":","N","o","S","h","a","p","e","s">>),
        now)

EmptyContentReport(profile, preferredLanguage, now) ==
    SystemReport(profile,
        SystemFinding(<<"N","o"," ","R","D","F"," ","d","a","t","a"," ","f","o","u","n","d"," ","t","o"," ","v","a","l","i","d","a","t","e",".">>,
                      preferredLanguage, <<"s","y","s","t","e","m",":","E","m","p","t","y","C","o","n","t","e","n","t">>, <<"s","y","s","t","e","m",":","V","a","l","i","d","a","t","i","o","n">>),
        now)

\* The report validateRDF returns for the engine's report
ValidationReportOf(profile, parsed, now) ==
    LET violations == SelectSeq(parsed.results, LAMBDA r : r.severity = S_Violation)
        warnings == SelectSeq(parsed.results, LAMBDA r : r.severity = S_Warning)
        infos == SelectSeq(parsed.results, LAMBDA r : r.severity = S_Info)
    IN [profile |-> profile,
        conforms |-> parsed.conforms,
        totalViolations |-> Len(violations),
        violations |-> violations,
        warnings |-> warnings,
        infos |-> infos,
        timestamp |-> now]

----------------------------------------------------------------------------
(* Validator page: ValidatorInput, App.handleValidate and validateRDF *)

viewerCells == <<inputText, uploadedFileName, viewerReport, viewerIsLoading, error, viewMode,
                 parseCall>>

resultsCells == <<rows, summary, history, severityFilter, flattenRuns, reportChanges>>

ValidatorInit ==
    /\ ValidatorIdle
    /\ ViewerIdle
    /\ ResultsIdle

\* ValidationModeSelector onChange: setSelectedProfile(prev => ({ ...prev, mode: newMode }))
handleModeChange ==
    /\ ~isLoading
    /\ \E newMode \in {"predefined", "custom"} :
        selectedProfile' = [selectedProfile EXCEPT !.mode = newMode]
    /\ download' = Null
    /\ UNCHANGED <<customShaclFiles, textContent, isLoading, validations, shaclShapesCache,
                   validationsStarted, fetchCount, report, resultsCells, viewerCells,
                   largeFileCells, upload, shaclDrop>>

\* ProfileSelector.handleProfileSelect: the profile with its default version
\* and branch
handleProfileSelect ==
    /\ ~isLoading
    /\ selectedProfile.mode = "predefined"
    /\ selectedProfile' = [profile |-> "dcat_ap_es",
                           version |-> mqaConfigData.defaultVersion,
                           branch |-> mqaConfigData.defaultBranch,
                           mode |-> "predefined"]
    /\ download' = Null
    /\ UNCHANGED <<customShaclFiles, textContent, isLoading, validations, shaclShapesCache,
                   validationsStarted, fetchCount, report, resultsCells, viewerCells,
                   largeFileCells, upload, shaclDrop>>

\* ProfileSelector.handleBranchSelect
handleBranchSelect ==
    /\ ~isLoading
    /\ selectedProfile.mode = "predefined"
    /\ \E branch \in {"main", "develop"} :
        selectedProfile' = [selectedProfile EXCEPT !.branch = branch]
    /\ download' = Null
    /\ UNCHANGED <<customShaclFiles, textContent, isLoading, validations, shaclShapesCache,
                   validationsStarted, fetchCount, report, resultsCells, viewerCells,
                   largeFileCells, upload, shaclDrop>>

\* ProfileSelector.handleVersionSelect
handleVersionSelect ==
    /\ ~isLoading
    /\ selectedProfile.mode = "predefined"
    /\ \E version \in DOMAIN mqaConfigData.versions :
        selectedProfile' = [selectedProfile EXCEPT !.version = version]
    /\ download' = Null
    /\ UNCHANGED <<customShaclFiles, textContent, isLoading, validations, shaclShapesCache,
                   validationsStarted, fetchCount, report, resultsCells, viewerCells,
                   largeFileCells, upload, shaclDrop>>

\* SHACLManager.handlePaste: a pasted text becomes a custom SHACL file
handlePaste ==
    /\ selectedProfile.mode = "custom"
    /\ Len(customShaclFiles) < MaxCustomFiles
    /\ \E pasteContent \in {CustomShapesDoc, BadShapesDoc} :
        LET id == CHOOSE n \in 1..MaxCustomFiles :
                      \A k \in 1..Len(customShaclFiles) : customShaclFiles[k].id # n
        IN customShaclFiles' = Append(customShaclFiles,
                [id |-> id, content |-> pasteContent, source |-> "paste"])
    /\ download' = Null
    /\ UNCHANGED <<selectedProfile, textContent, isLoading, validations, shaclShapesCache,
                   validationsStarted, fetchCount, report, resultsCells, viewerCells,
                   largeFileCells, upload, shaclDrop>>

\* SHACLManager.removeSHACLFile
removeSHACLFile ==
    /\ selectedProfile.mode = "custom"
    /\ \E k \in 1..Len(customShaclFiles) :
        customShaclFiles' = SelectSeq(customShaclFiles, LAMBDA f : f.id # customShaclFiles[k].id)
    /\ download' = Null
    /\ UNCHANGED <<selectedProfile, textContent, isLoading, validations, shaclShapesCache,
                   validationsStarted, fetchCount, report, resultsCells, viewerCells,
                   largeFileCells, upload, shaclDrop>>

\* The editor's onChange: setTextContent
setTextContent ==
    /\ \E text \in ({DataDoc, (TurtleDoc({<<"d","c","a","t">>}, <<>>)), BadDataDoc}) \cup {BlankText} :
        /\ text # textContent
        /\ textContent' = text
    /\ download' = Null
    /\ UNCHANGED <<selectedProfile, customShaclFiles, isLoading, validations, shaclShapesCache,
                   validationsStarted, fetchCount, report, resultsCells, viewerCells,
                   largeFileCells, upload, shaclDrop>>

\* The validate button is disabled (the workspace is in its paste mode)
isValidateDisabled ==
    IF isLoading THEN TRUE
    ELSE IF selectedProfile.mode = "custom" /\ Len(customShaclFiles) = 0 THEN TRUE
    ELSE textContent.blank

\* The profile ValidatorInput.handleValidate hands to onValidate
ValidationProfile ==
    [profile |-> selectedProfile.profile,
     version |-> selectedProfile.version,
     branch |-> selectedProfile.branch,
     mode |-> selectedProfile.mode,
     customShacl |-> IF selectedProfile.mode = "custom"
                     THEN [array |-> customShaclFiles]
                     ELSE Null]

\* The arguments App.handleValidate calls validateRDF with: the content, the
\* profile, 'text/turtle', the language and the branch; customShacl and mode
\* are not passed and are undefined in validateRDF
AppValidateArgs(content, profile) ==
    [rdfContent |-> content,
     profile |-> profile.profile,
     format |-> "text/turtle",
     language |-> SplitFirst(<<"e","s">>, <<"-">>),
     branch |-> profile.branch,
     customShacl |-> Null,
     mode |-> "undefined"]

\* const LARGE_FILE_THRESHOLD_KB = 2 * 1024
LARGE_FILE_THRESHOLD_KB == 2048

\* new Blob([payload]).size / 1024: the size of a text in KB, a statement of
\* the text standing for 1024 KB of it
PayloadSizeKB(payload) == 1024 * Len(payload.triples)

\* preferredLanguage = this.normalizeLang(language) || 'es'
PreferredLanguage(language) ==
    IF Len(serviceNormalizeLang(language)) > 0 THEN serviceNormalizeLang(language) ELSE <<"e","s">>

\* The custom SHACL texts validateRDF parses when it takes its custom branch
UsesCustomShacl(args) ==
    /\ args.mode = "custom"
    /\ args.customShacl # Null
    /\ Len(args.customShacl.array) > 0

\* validateRDF going on to the data whatever its shapes hold
WithShapesUnchecked(call, shapes) == [call EXCEPT !.pc = "data", !.shapes = shapes]

\* validateRDF once it holds its shapes: the NoShapes report without shapes
WithShapes(call, shapes) ==
    IF Len(shapes) = 0
    THEN [call EXCEPT !.pc = "resolved",
                      !.result = NoShapesReport(call.args.profile,
                                                PreferredLanguage(call.args.language), 0)]
    ELSE [call EXCEPT !.pc = "data", !.shapes = shapes]

\* App.handleValidate and validateRDF up to the first await that waits for
\* something: parseCustomSHACL for custom shapes, else getSHACLShapes, which
\* answers from the cache or calls fetch for the profile's files
onValidate(content, profile) ==
    LET args == AppValidateArgs(content, profile)
        call == [seq |-> validationsStarted + 1,
                 profile |-> profile,
                 args |-> args,
                 pc |-> "fetching",
                 shapes |-> <<>>,
                 engineReport |-> Null,
                 result |-> Null]
        key == CacheKey(args.profile, args.branch)
        files == getSHACLFilesForProfile(args.profile, args.branch)
        urls == {files[k] : k \in 1..Len(files)}
    IN /\ validationsStarted' = validationsStarted + 1
       /\ isLoading' = TRUE
       /\ report' = Null
       /\ IF UsesCustomShacl(args)
          THEN LET out == parseCustomSHACL(args.customShacl.array)
               IN /\ validations' = Append(validations,
                        IF out.error # "none" THEN [call EXCEPT !.pc = "rejected"]
                        ELSE WithShapes(call, out.dataset))
                  /\ UNCHANGED <<shaclShapesCache, fetchCount>>
          ELSE IF \E e \in shaclShapesCache : e.key = key
          THEN /\ validations' = Append(validations,
                    WithShapes(call, (CHOOSE e \in shaclShapesCache : e.key = key).dataset))
               /\ UNCHANGED <<shaclShapesCache, fetchCount>>
          ELSE IF Len(files) = 0
          THEN /\ validations' = Append(validations, WithShapes(call, <<>>))
               /\ shaclShapesCache' = shaclShapesCache \cup {[key |-> key, dataset |-> <<>>]}
               /\ UNCHANGED fetchCount
          ELSE /\ validations' = Append(validations, call)
               /\ fetchCount' = [url \in DOMAIN fetchCount \cup urls |->
                    (IF url \in DOMAIN fetchCount THEN fetchCount[url] ELSE 0)
                    + Cardinality({k \in 1..Len(files) : files[k] = url})]
               /\ UNCHANGED shaclShapesCache

\* handleValidate handing every payload to onValidate, whatever its size
handleValidateUnchecked ==
    /\ ~isValidateDisabled
    /\ validationsStarted < MaxValidations
    /\ onValidate(textContent, ValidationProfile)
    /\ download' = Null
    /\ UNCHANGED <<selectedProfile, customShaclFiles, textContent, largeFileCells,
                   resultsCells, viewerCells, upload, shaclDrop>>

\* ValidatorInput.handleValidate for a pasted Turtle text: a payload above the
\* large file threshold is kept as pending and the warning is shown, any
\* other is handed to onValidate
handleValidate ==
    /\ ~isValidateDisabled
    /\ IF PayloadSizeKB(textContent) > LARGE_FILE_THRESHOLD_KB
       THEN /\ pendingValidation' = [payload |-> textContent, profile |-> ValidationProfile]
            /\ showLargeFileWarning' = TRUE
            /\ UNCHANGED <<validationsStarted, isLoading, report, validations,
                           shaclShapesCache, fetchCount>>
       ELSE /\ validationsStarted < MaxValidations
            /\ onValidate(textContent, ValidationProfile)
            /\ UNCHANGED <<pendingValidation, showLargeFileWarning>>
    /\ download' = Null
    /\ UNCHANGED <<selectedProfile, customShaclFiles, textContent, validatingLargeFile,
                   resultsCells, viewerCells, upload, shaclDrop>>

\* The confirm button of the large file warning
proceedWithValidation ==
    /\ showLargeFileWarning
    /\ pendingValidation # Null
    /\ validationsStarted < MaxValidations
    /\ validatingLargeFile' = [size |-> 1024 * PayloadSizeKB(pendingValidation.payload)]
    /\ onValidate(pendingValidation.payload, pendingValidation.profile)
    /\ pendingValidation' = Null
    /\ showLargeFileWarning' = FALSE
    /\ download' = Null
    /\ UNCHANGED <<selectedProfile, customShaclFiles, textContent, resultsCells, viewerCells,
                   upload, shaclDrop>>

\* The cancel button of the large file warning
cancelLargeFileValidation ==
    /\ showLargeFileWarning
    /\ pendingValidation # Null
    /\ pendingValidation' = Null
    /\ showLargeFileWarning' = FALSE
    /\ download' = Null
    /\ UNCHANGED <<selectedProfile, customShaclFiles, textContent, isLoading, validations,
                   shaclShapesCache, validationsStarted, fetchCount, validatingLargeFile,
                   report, resultsCells, viewerCells, upload, shaclDrop>>

\* getSHACLShapes from the responses to its fetch calls on: the files whose
\* response is ok are parsed, the others are skipped, and the dataset is put
\* in the cache
getSHACLShapesFetched ==
    /\ \E i \in 1..Len(validations) :
        /\ validations[i].pc = "fetching"
        /\ LET call == validations[i]
               key == CacheKey(call.args.profile, call.args.branch)
               files == getSHACLFilesForProfile(call.args.profile, call.args.branch)
           IN \E ok \in [1..Len(files) -> BOOLEAN] :
                LET dataset == FetchShapesFrom(files, ok, 1, <<>>)
                IN /\ shaclShapesCache' = {e \in shaclShapesCache : e.key # key}
                                          \cup {[key |-> key, dataset |-> dataset]}
                   /\ validations' = [validations EXCEPT ![i] = WithShapes(call, dataset)]
    /\ download' = Null
    /\ UNCHANGED <<selectedProfile, customShaclFiles, textContent, isLoading,
                   validationsStarted, fetchCount, report, resultsCells, viewerCells,
                   largeFileCells, upload, shaclDrop>>

\* SHACLValidationService.clearCache
clearCache ==
    /\ shaclShapesCache' = {}
    /\ fetchCount' = <<>>
    /\ download' = Null
    /\ UNCHANGED <<selectedProfile, customShaclFiles, textContent, isLoading, validations,
                   validationsStarted, report, resultsCells, viewerCells,
                   largeFileCells, upload, shaclDrop>>

\* validateRDF from parseRDFContent to its return: the EmptyContent report
\* without data, otherwise the engine's results as a report
validateRDFValidate ==
    /\ \E i \in 1..Len(validations) :
        /\ validations[i].pc = "data"
        /\ LET call == validations[i]
               data == parseRDFContent(call.args.rdfContent)
               preferredLanguage == PreferredLanguage(call.args.language)
           IN IF data.error # "none"
              THEN validations' = [validations EXCEPT ![i] = [call EXCEPT !.pc = "rejected"]]
              ELSE IF Len(data.dataset) = 0
              THEN validations' = [validations EXCEPT ![i] =
                        [call EXCEPT !.pc = "resolved",
                                     !.result = EmptyContentReport(call.args.profile,
                                                                   preferredLanguage, 0)]]
              ELSE \E failing \in SUBSET (1..Len(EnginePairs(call.shapes, data.dataset))) :
                    /\ Cardinality(failing) <= MaxEngineResults
                    /\ \E conforms \in EngineConforms(EngineResults(call.shapes, data.dataset, failing)) :
                        LET engineReport == [conforms |-> conforms,
                                             results |-> EngineResults(call.shapes, data.dataset, failing)]
                            parsed == parseSHACLResult(engineReport, call.shapes, preferredLanguage)
                        IN validations' = [validations EXCEPT ![i] =
                              [call EXCEPT !.pc = "resolved",
                                           !.engineReport = engineReport,
                                           !.result = ValidationReportOf(call.args.profile, parsed, 0)]]
    /\ download' = Null
    /\ UNCHANGED <<selectedProfile, customShaclFiles, textContent, isLoading, shaclShapesCache,
                   validationsStarted, fetchCount, report, resultsCells, viewerCells,
                   largeFileCells, upload, shaclDrop>>

\* App.handleValidate after its await: setReport(result) when validateRDF
\* resolved, nothing when it threw, and setIsLoading(false) in both cases
handleValidateSettle ==
    /\ \E i \in 1..Len(validations) :
        /\ validations[i].pc \in {"resolved", "rejected"}
        /\ report' = IF validations[i].pc = "resolved" THEN validations[i].result ELSE report
        /\ validations' = [k \in 1..(Len(validations) - 1) |->
                              IF k < i THEN validations[k] ELSE validations[k + 1]]
    /\ isLoading' = FALSE
    \* the effect on isLoading of ValidatorInput: setValidatingLargeFile(null)
    /\ validatingLargeFile' = IF isLoading THEN Null ELSE validatingLargeFile
    /\ download' = Null
    /\ UNCHANGED <<selectedProfile, customShaclFiles, textContent, shaclShapesCache,
                   validationsStarted, fetchCount, pendingValidation, showLargeFileWarning,
                   resultsCells, viewerCells, upload, shaclDrop>>

\* ValidationResults.downloadTTL: the report as a Turtle file
downloadTTL ==
    /\ report # Null
    /\ download' = [name |-> <<"shacl", "report", "ttl">>,
                    type |-> "text/turtle",
                    payload |-> exportReportAsTurtle(report)]
    /\ UNCHANGED <<validatorVars, report, resultsCells, viewerCells>>

ValidatorNext ==
    \/ handleModeChange
    \/ handleProfileSelect
    \/ handleBranchSelect
    \/ handlePaste
    \/ removeSHACLFile
    \/ setTextContent
    \/ handleValidate
    \/ getSHACLShapesFetched
    \/ validateRDFValidate
    \/ handleValidateSettle
    \/ downloadTTL

SpecValidator == ValidatorInit /\ [][ValidatorNext]_vars

----------------------------------------------------------------------------
(* Validator page: claims *)

\* The contents of the custom SHACL files a validation was started with
CustomContents(profile) ==
    [k \in 1..Len(profile.customShacl.array) |-> profile.customShacl.array[k].content]

\* C1: a validation started in the custom mode with at least one custom SHACL
\* file checks the data against the shapes parsed from the custom files, not
\* against the shapes of the predefined profile.
C1_CustomModeUsesCustomShapes ==
    \A i \in 1..Len(validations) :
        (/\ validations[i].profile.mode = "custom"
         /\ validations[i].profile.customShacl # Null
         /\ Len(validations[i].profile.customShacl.array) > 0
         /\ validations[i].pc = "data")
        => /\ parseCustomSHACL(CustomContents(validations[i].profile)).error = "none"
           /\ validations[i].shapes = parseCustomSHACL(CustomContents(validations[i].profile)).dataset

\* The list the claim assigns to a result of the engine by its severity
EngineSeverityClass(severity) ==
    IF severity.value = NS_sh \o <<"W","a","r","n","i","n","g">> THEN S_Warning
    ELSE IF severity.value = NS_sh \o <<"I","n","f","o">> THEN S_Info
    ELSE S_Violation

\* The findings of a list that stem from one result of the engine
FindingsOfResult(findings, result) ==
    {j \in 1..Len(findings) :
        /\ findings[j].focusNode = result.focusNode.value
        /\ findings[j].sourceShape = result.sourceShape.value}

C9_ExportImportRoundTrip ==
    (download # Null /\ download.type = "text/turtle") =>
        /\ parseShaclReport(download.payload, 0).error = "none"
        /\ parseShaclReport(download.payload, 0).report.conforms = report.conforms
        /\ Len(parseShaclReport(download.payload, 0).report.violations) = Len(report.violations)
        /\ Len(parseShaclReport(download.payload, 0).report.warnings) = Len(report.warnings)
        /\ Len(parseShaclReport(download.payload, 0).report.infos) = Len(report.infos)

----------------------------------------------------------------------------
(* Results view: the CSV download *)

\* Reports with one violation and, or not, a warning and an info; the value
\* and the message text of the violation hold a plain character and the ones
\* that separate fields and records or quote a field
CsvReports ==
    LET CsvFinding(sev, value, text) ==
            [severity |-> sev,
             focusNode |-> <<"u","r","n",":","d","1">>,
             path |-> <<"h","t","t","p",":","/","/","p">>,
             value |-> value,
             message |-> <<[text |-> text, lang |-> <<"e","s">>]>>,
             sourceConstraintComponent |-> <<"h","t","t","p",":","/","/","c">>,
             sourceShape |-> <<"h","t","t","p",":","/","/","s","/","V">>,
             resultSeverity |-> <<>>,
             foafPage |-> <<>>]
        chars == {"a", ",", "\"", "\n", "\r"}
    IN  {Report(<<CsvFinding(S_Violation, value, text)>>,
                IF more \in {1, 3} THEN <<CsvFinding(S_Warning, <<"a">>, <<"a">>)>> ELSE <<>>,
                IF more \in {2, 3} THEN <<CsvFinding(S_Info, <<>>, <<"a">>)>> ELSE <<>>,
                0) :
            value \in SeqsUpTo(chars, MaxCsvLen),
            text \in SeqsUpTo(chars, 1) \ {<<>>},
            more \in 0..3}

CsvInit ==
    /\ report \in CsvReports
    /\ rows = <<>>
    /\ summary = [violation |-> 0, warning |-> 0, info |-> 0, total |-> 0]
    /\ history = <<>>
    /\ severityFilter = <<"a","l","l">>
    /\ flattenRuns = <<>>
    /\ reportChanges = 0
    /\ ViewerIdle
    /\ ValidatorIdle

\* ValidationResults.downloadCSV: the report as a CSV file
downloadCSV ==
    /\ report # Null
    /\ download' = [name |-> <<"shacl", "report", "csv">>,
                    type |-> "text/csv",
                    payload |-> exportReportAsCSV(report)]
    /\ UNCHANGED <<validatorVars, report, resultsCells, viewerCells>>

CsvNext == downloadCSV \/ downloadTTL

SpecCsv == CsvInit /\ [][CsvNext]_vars

\* A CSV reader: fields are separated by commas and records by a line break
\* (LF, CR LF or CR); a field in double quotes holds commas and line breaks
\* as they are and a double quote written twice. A character is inside
\* quotes when an odd number of double quotes precedes it.
CsvQuoted(text, i) == Cardinality({j \in 1..(i - 1) : text[j] = "\""}) % 2 = 1

\* The line feed of a CR LF pair outside quotes
CsvSkipped(text, i) ==
    /\ text[i] = "\n" /\ i > 1 /\ text[i - 1] = "\r"
    /\ ~CsvQuoted(text, i)

CsvBreaks(text) ==
    {i \in 1..Len(text) :
        /\ text[i] \in {"\n", "\r"}
        /\ ~CsvQuoted(text, i)
        /\ ~CsvSkipped(text, i)}

CsvSeparators(text) ==
    CsvBreaks(text) \cup {i \in 1..Len(text) : text[i] = "," /\ ~CsvQuoted(text, i)}

\* The characters of the field between two separators: the quotes around it
\* dropped, a doubled quote inside it kept once
CsvField(text, from, to) ==
    LET kept(i) == /\ ~CsvSkipped(text, i)
                   /\ text[i] = "\"" => (i > 1 /\ text[i - 1] = "\"" /\ ~CsvQuoted(text, i))
        indexes == SelectSeq([k \in 1..(to - from + 1) |-> from + k - 1], kept)
    IN  [k \in 1..Len(indexes) |-> text[indexes[k]]]

CsvRead(text) ==
    LET seps == CsvSeparators(text) \cup {0, Len(text) + 1}
        breaks == CsvBreaks(text)
        starts == seps \ {Len(text) + 1}
        endOf(p) == CHOOSE q \in seps : q > p /\ \A x \in seps : x > p => q <= x
        recordOf(p) == 1 + Cardinality({x \in breaks : x <= p})
        ordered(set) ==
            [k \in 1..Cardinality(set) |->
                CHOOSE x \in set : Cardinality({y \in set : y < x}) = k - 1]
    IN  [r \in 1..(1 + Cardinality(breaks)) |->
            LET ps == ordered({p \in starts : recordOf(p) = r})
            IN  [k \in 1..Len(ps) |-> CsvField(text, ps[k] + 1, endOf(ps[k]) - 1)]]

\* The seven values of a finding the CSV export writes
CsvFieldValues(issue) ==
    <<issue.severity, issue.focusNode, issue.path, issue.value,
      Join([k \in 1..Len(issue.message) |-> issue.message[k].text], <<" ","|"," ">>),
      issue.sourceShape, issue.sourceConstraintComponent>>

\* C11: the CSV export holds, after the header line, one record of seven
\* fields per finding (violations, then warnings, then infos), and a CSV
\* reader recovers the field values, also those with commas, double quotes
\* or line breaks.
C11_CsvRecoversValues ==
    (download # Null /\ download.type = "text/csv") =>
        /\ Len(CsvRead(download.payload)) = 1 + Len(AllFindings(report))
        /\ CsvRead(download.payload)[1] = CsvHeaders
        /\ \A k \in 1..Len(AllFindings(report)) :
              CsvRead(download.payload)[k + 1] = CsvFieldValues(AllFindings(report)[k])

\* The same for values without a carriage return
C11_CsvRecoversValuesWithoutCR ==
    (/\ download # Null
     /\ download.type = "text/csv"
     /\ \A k \in 1..Len(AllFindings(report)) :
          \A j \in 1..7 : ~Includes(CsvFieldValues(AllFindings(report)[k])[j], <<"\r">>))
    => C11_CsvRecoversValues

----------------------------------------------------------------------------
(* ValidatorInput: the upload of a file in slices *)

\* The UTF-8 bytes of a text of the characters "a" and U+00E9
RECURSIVE Utf8Encode(_)
Utf8Encode(text) ==
    IF Len(text) = 0 THEN <<>>
    ELSE (IF text[1] = "a" THEN <<"61">> ELSE <<"C3", "A9">>) \o Utf8Encode(Tail(text))

\* FileReader.readAsText: the UTF-8 decoding of the bytes of a blob; a lead
\* byte without its continuation byte and a continuation byte without its
\* lead byte decode to U+FFFD
RECURSIVE Utf8Decode(_)
Utf8Decode(bytes) ==
    IF Len(bytes) = 0 THEN <<>>
    ELSE IF bytes[1] = "61" THEN <<"a">> \o Utf8Decode(Tail(bytes))
    ELSE IF bytes[1] = "C3" /\ Len(bytes) >= 2 /\ bytes[2] = "A9"
    THEN <<"U+00E9">> \o Utf8Decode(Tail(Tail(bytes)))
    ELSE <<"U+FFFD">> \o Utf8Decode(Tail(bytes))

\* The files dropped on the upload area
UploadFiles == {Utf8Encode(text) : text \in SeqsUpTo({"a", "U+00E9"}, MaxFileChars)}

\* readNextChunk of readFileInChunks: the rejection of a cancelled upload
\* (onDrop's catch then clears the file name), else the read of the slice at
\* the call's offset. The cells started and settled count the promises that
\* readFileInChunks has created and the calls of their resolve or reject.
readNextChunk(cells, call) ==
    IF cells.uploadCancelledRef
    THEN [cells EXCEPT !.progress = 0, !.isUploading = FALSE,
                       !.error = [key |-> "validator.uploadCancelled"],
                       !.uploadedFileName = Null, !.call = Null,
                       !.settled = cells.settled + 1]
    ELSE [cells EXCEPT !.call = [call EXCEPT !.reads = Append(call.reads, call.offset)]]

\* onDrop up to the first readAsText of readFileInChunks; the drop area is
\* rendered when no file is being read and no file name is shown
onDrop ==
    /\ upload.call = Null
    /\ upload.uploadedFileName = Null
    /\ upload.started < MaxUploads
    /\ \E file \in UploadFiles :
        upload' = readNextChunk(
            [upload EXCEPT !.uploadCancelledRef = FALSE,
                           !.progress = 0, !.isUploading = TRUE, !.error = Null,
                           !.started = upload.started + 1],
            [file |-> file, offset |-> 0, result |-> <<>>, reads |-> <<>>])
    /\ UNCHANGED <<selectedProfile, customShaclFiles, textContent, isLoading, validations,
                   shaclShapesCache, validationsStarted, fetchCount, largeFileCells,
                   resultsVars, viewerVars, shaclDrop>>

\* reader.onload: the text of the slice is appended; then the next slice is
\* read, or the promise resolves and onDrop stores the text and the file name
readerOnload ==
    /\ upload.call # Null
    /\ LET call == upload.call
           size == Len(call.file)
           slice == SubSeq(call.file, call.offset + 1,
                           IF call.offset + chunkSize < size THEN call.offset + chunkSize ELSE size)
           result == call.result \o Utf8Decode(slice)
           offset == call.offset + chunkSize
           rounded == IF size = 0 THEN 100 ELSE (200 * offset + size) \div (2 * size)
           progress == IF rounded < 100 THEN rounded ELSE 100
       IN IF offset < size
          THEN /\ upload' = readNextChunk([upload EXCEPT !.progress = progress],
                                          [call EXCEPT !.result = result, !.offset = offset])
               /\ UNCHANGED textContent
          ELSE /\ upload' = [upload EXCEPT !.progress = 100, !.isUploading = FALSE,
                                           !.error = Null,
                                           !.uploadedFileName = [name |-> "file.ttl"],
                                           !.call = Null,
                                           !.settled = upload.settled + 1]
               /\ textContent' = [chars |-> result]
    /\ UNCHANGED <<selectedProfile, customShaclFiles, isLoading, validations,
                   shaclShapesCache, validationsStarted, fetchCount, largeFileCells,
                   resultsVars, viewerVars, shaclDrop>>

\* reader.onerror without the reset of the upload state
readerOnerrorKeepsUploading ==
    /\ upload.call # Null
    /\ upload' = [upload EXCEPT !.uploadedFileName = Null, !.call = Null,
                                !.settled = upload.settled + 1]
    /\ UNCHANGED <<selectedProfile, customShaclFiles, textContent, isLoading, validations,
                   shaclShapesCache, validationsStarted, fetchCount, largeFileCells,
                   resultsVars, viewerVars, shaclDrop>>

\* reader.onerror: the promise is rejected and onDrop's catch clears the file name
readerOnerror ==
    /\ upload.call # Null
    /\ upload' = [upload EXCEPT !.progress = 0, !.isUploading = FALSE,
                                !.error = [key |-> "validator.uploadError"],
                                !.uploadedFileName = Null, !.call = Null,
                                !.settled = upload.settled + 1]
    /\ UNCHANGED <<selectedProfile, customShaclFiles, textContent, isLoading, validations,
                   shaclShapesCache, validationsStarted, fetchCount, largeFileCells,
                   resultsVars, viewerVars, shaclDrop>>

\* The cancel button shown while a file is read
cancelUpload ==
    /\ upload.isUploading
    /\ upload' = [upload EXCEPT !.uploadCancelledRef = TRUE, !.uploadedFileName = Null]
    /\ UNCHANGED <<selectedProfile, customShaclFiles, textContent, isLoading, validations,
                   shaclShapesCache, validationsStarted, fetchCount, largeFileCells,
                   resultsVars, viewerVars, shaclDrop>>

\* onDropRejected: a dropped file whose extension the drop area does not accept
onDropRejected ==
    /\ upload.call = Null
    /\ upload.uploadedFileName = Null
    /\ upload' = [upload EXCEPT !.progress = 0, !.isUploading = FALSE,
                                !.error = [key |-> "validator.unsupportedFormatError"]]
    /\ UNCHANGED <<selectedProfile, customShaclFiles, textContent, isLoading, validations,
                   shaclShapesCache, validationsStarted, fetchCount, largeFileCells,
                   resultsVars, viewerVars, shaclDrop>>

\* clearFile of ValidatorInput: the button next to the name of the loaded file
clearUploadedFile ==
    /\ upload.call = Null
    /\ upload.uploadedFileName # Null
    /\ textContent' = BlankText
    /\ upload' = [upload EXCEPT !.uploadedFileName = Null, !.progress = 0,
                                !.isUploading = FALSE, !.error = Null]
    /\ UNCHANGED <<selectedProfile, customShaclFiles, isLoading, validations,
                   shaclShapesCache, validationsStarted, fetchCount, largeFileCells,
                   resultsVars, viewerVars, shaclDrop>>

UploadNext ==
    \/ onDrop
    \/ onDropRejected
    \/ readerOnload
    \/ readerOnerror
    \/ cancelUpload
    \/ clearUploadedFile

SpecUpload == ValidatorInit /\ [][UploadNext]_vars

\* The step in which readFileInChunks resolves
UploadResolves ==
    /\ upload.call # Null
    /\ upload'.call = Null
    /\ upload'.error = Null

\* The offsets of the slices of a file of the given size
SliceOffsets(size) ==
    [k \in 1..(IF size = 0 THEN 1 ELSE (size + chunkSize - 1) \div chunkSize) |->
        (k - 1) * chunkSize]

\* C12: an upload that is neither cancelled nor hit by a read error reads
\* every slice once, in increasing offset order, and resolves with the text
\* that reading the whole file at once gives.
C12_ChunkedReadGivesWholeText ==
    [][UploadResolves =>
        /\ upload.call.reads = SliceOffsets(Len(upload.call.file))
        /\ textContent'.chars = Utf8Decode(upload.call.file)]_vars

\* The slices are read once each, in increasing offset order
C12_SlicesReadOnceInOrder ==
    [][UploadResolves => upload.call.reads = SliceOffsets(Len(upload.call.file))]_vars

\* The text is the whole file's when no character lies across two slices
C12_WholeTextWhenNoCharacterIsSplit ==
    [][(/\ UploadResolves
        /\ \A k \in 1..Len(upload.call.file) :
             (upload.call.file[k] = "C3") => (k % chunkSize # 0))
       => textContent'.chars = Utf8Decode(upload.call.file)]_vars

----------------------------------------------------------------------------
(* Validations with a profile version chosen in the selector *)

VersionNext ==
    \/ handleVersionSelect
    \/ handleBranchSelect
    \/ setTextContent
    \/ handleValidate
    \/ getSHACLShapesFetched
    \/ validateRDFValidate
    \/ handleValidateSettle

SpecVersion == ValidatorInit /\ [][VersionNext]_vars

\* The quads of the SHACL files configured for a version of the profile
ConfiguredShapes(version, branch) ==
    LET shaclFiles == mqaConfigData.versions[version].shaclFiles
        files == [k \in 1..Len(shaclFiles) |-> ReplaceBranch(shaclFiles[k], branch)]
    IN  FetchShapesFrom(files, [k \in 1..Len(files) |-> TRUE], 1, <<>>)

\* C14: a validation with a predefined profile is checked against the SHACL
\* files configured for the version chosen in the selector.
C14_SelectedVersionIsUsed ==
    \A i \in 1..Len(validations) :
        (validations[i].profile.mode = "predefined" /\ validations[i].pc = "data") =>
            \A k \in 1..Len(validations[i].shapes) :
                \E m \in 1..Len(ConfiguredShapes(validations[i].profile.version,
                                                 validations[i].profile.branch)) :
                    validations[i].shapes[k] =
                        ConfiguredShapes(validations[i].profile.version,
                                         validations[i].profile.branch)[m]

\* The same for validations started with the profile's default version
C14_DefaultVersionIsUsed ==
    \A i \in 1..Len(validations) :
        (/\ validations[i].profile.mode = "predefined"
         /\ validations[i].pc = "data"
         /\ validations[i].profile.version = mqaConfigData.defaultVersion) =>
            \A k \in 1..Len(validations[i].shapes) :
                \E m \in 1..Len(ConfiguredShapes(validations[i].profile.version,
                                                 validations[i].profile.branch)) :
                    validations[i].shapes[k] =
                        ConfiguredShapes(validations[i].profile.version,
                                         validations[i].profile.branch)[m]

----------------------------------------------------------------------------
(* validateRDF without shapes or without data *)

\* A report that does not conform and holds one violation of the given
\* constraint component and nothing else
OnlySystemViolation(r, component) ==
    /\ ~r.conforms
    /\ Len(r.violations) = 1
    /\ r.violations[1].severity = S_Violation
    /\ r.violations[1].sourceConstraintComponent = component
    /\ r.warnings = <<>>
    /\ r.infos = <<>>

----------------------------------------------------------------------------
(* Validations that overlap: the large file warning and the shapes cache *)

\* The editor's onChange with a text of n statements about one dataset, which
\* is at the large file threshold (n = 2) or above it (n = 3)
setLargeTextContent ==
    /\ \E n \in {2, 3} :
        LET LargeDataDoc ==
                TurtleDoc({<<"d","c","a","t">>},
                  [k \in 1..n |->
                    IF k = 1
                    THEN Triple(IriToken(<<"u","r","n",":","d","1">>), RawToken(<<"a">>),
                                RawToken(<<"d","c","a","t",":","D","a","t","a","s","e","t">>))
                    ELSE Triple(IriToken(<<"u","r","n",":","d","1">>),
                                IriToken(<<"h","t","t","p",":","/","/","p">>),
                                IriToken(<<"u","r","n",":","o">> \o NatString(k)))])
        IN /\ LargeDataDoc # textContent
           /\ textContent' = LargeDataDoc
    /\ download' = Null
    /\ UNCHANGED <<selectedProfile, customShaclFiles, isLoading, validations, shaclShapesCache,
                   validationsStarted, fetchCount, report, resultsCells, viewerCells,
                   largeFileCells, upload, shaclDrop>>

OverlapNext ==
    \/ setLargeTextContent
    \/ handleBranchSelect
    \/ handleValidate
    \/ proceedWithValidation
    \/ cancelLargeFileValidation
    \/ getSHACLShapesFetched
    \/ validateRDFValidate
    \/ handleValidateSettle
    \/ clearCache

SpecOverlap == ValidatorInit /\ [][OverlapNext]_vars


LargeFileNext ==
    \/ setLargeTextContent
    \/ handleValidate
    \/ proceedWithValidation
    \/ cancelLargeFileValidation
    \/ getSHACLShapesFetched
    \/ validateRDFValidate
    \/ handleValidateSettle

SpecLargeFile == ValidatorInit /\ [][LargeFileNext]_vars


\* The step in which a validation starts
ValidationStarts == validationsStarted' = validationsStarted + 1

\* C16: shapes that are incomplete because the fetch of a SHACL file failed
\* are not reused: a validation that starts without a fetch holds the shapes
\* of all the files of its profile and branch.
C16_IncompleteShapesNotReused ==
    [][(ValidationStarts /\ fetchCount' = fetchCount) =>
        LET call == validations'[Len(validations')]
            key == CacheKey(call.args.profile, call.args.branch)
        IN \A e \in shaclShapesCache :
              (e.key = key) =>
                  e.dataset = ConfiguredShapes(mqaConfigData.defaultVersion, call.args.branch)]_vars

\* C17: between two clearCache calls a SHACL file is fetched at most once,
\* also by validations that overlap, and a validation that goes on to the
\* data holds the shapes of its own profile and branch.
C17_FetchedOncePerKey ==
    /\ \A url \in DOMAIN fetchCount : fetchCount[url] <= 1
    /\ \A i \in 1..Len(validations) :
          (validations[i].pc = "data") =>
              validations[i].shapes =
                  ConfiguredShapes(mqaConfigData.defaultVersion, validations[i].args.branch)

\* The shapes a validation holds are those of its own key
C17_ShapesOfOwnKey ==
    \A i \in 1..Len(validations) :
        (validations[i].pc = "data") =>
            validations[i].shapes =
                ConfiguredShapes(mqaConfigData.defaultVersion, validations[i].args.branch)

\* C18: isLoading is true exactly while at least one validation is in
\* progress.
C18_LoadingWhileValidating == isLoading <=> (Len(validations) > 0)

\* C19: once all started validations have finished, the report shown is the
\* result of the validation started last, or none if that one failed: the
\* last validation to finish sets it when it is the one started last, and
\* leaves it alone when it is an earlier one.
C19_ReportOfLatestValidation ==
    [][(Len(validations) = 1 /\ validations' = <<>>) =>
        IF validations[1].seq = validationsStarted
        THEN report' = (IF validations[1].pc = "resolved" THEN validations[1].result ELSE Null)
        ELSE report' = report]_vars

IsLargePayload(payload) == PayloadSizeKB(payload) > LARGE_FILE_THRESHOLD_KB

\* C20: a payload above the large file threshold reaches onValidate only
\* through the confirmation of the warning, once per confirmation:
\* handleValidate keeps it as pending and shows the warning without starting
\* a validation, a validation of a large payload starts in a step that takes
\* the pending payload, and a pending payload is dropped either by that step
\* or, on cancel, without any validation.
C20_LargePayloadNeedsConfirmation ==
    [][/\ (ValidationStarts /\ IsLargePayload(validations'[Len(validations')].args.rdfContent)) =>
            /\ showLargeFileWarning
            /\ pendingValidation # Null
            /\ pendingValidation.payload = validations'[Len(validations')].args.rdfContent
            /\ pendingValidation' = Null
            /\ ~showLargeFileWarning'
            /\ Len(validations') = Len(validations) + 1
       /\ (pendingValidation' # Null /\ pendingValidation' # pendingValidation) =>
            /\ IsLargePayload(pendingValidation'.payload)
            /\ showLargeFileWarning'
            /\ validations' = validations
            /\ validationsStarted' = validationsStarted
       /\ (pendingValidation # Null /\ pendingValidation' = Null) =>
            \/ /\ ValidationStarts
               /\ validations'[Len(validations')].args.rdfContent = pendingValidation.payload
            \/ /\ validations' = validations
               /\ validationsStarted' = validationsStarted
               /\ ~showLargeFileWarning']_vars

\* A large payload is validated after its confirmation, after an earlier
\* large payload was kept as pending and cancelled
C20_Witness ==
    /\ validatingLargeFile # Null
    /\ pendingValidation = Null
    /\ ~showLargeFileWarning
    /\ \E i \in 1..Len(validations) : IsLargePayload(validations[i].args.rdfContent)

----------------------------------------------------------------------------
(* The cancel button against the read in flight *)

\* The step in which a read settles after cancelUpload was called during it
CancelledReadSettles ==
    /\ upload.call # Null
    /\ upload.uploadCancelledRef
    /\ upload'.call = Null

\* C21: once cancelUpload has been called during a file read, that read never
\* delivers its content: its promise rejects (with 'Upload cancelled', or with
\* the reader's error when the slice in flight fails), and neither the editor
\* content nor the uploaded file name is set from that file.
C21_CancelledReadDeliversNothing ==
    [][CancelledReadSettles =>
        /\ upload'.error \in {[key |-> "validator.uploadCancelled"],
                              [key |-> "validator.uploadError"]}
        /\ textContent' = textContent
        /\ upload'.uploadedFileName = Null]_vars

\* A cancel that arrives while a slice other than the last one is read is
\* honoured at the next readNextChunk
C21_CancelledBeforeLastSliceDeliversNothing ==
    [][(/\ upload.call # Null
        /\ upload.uploadCancelledRef
        /\ upload.call.offset + chunkSize < Len(upload.call.file)
        /\ upload' # upload)
       => /\ upload'.call = Null
          /\ upload'.error \in {[key |-> "validator.uploadCancelled"],
                                [key |-> "validator.uploadError"]}
          /\ textContent' = textContent
          /\ upload'.uploadedFileName = Null]_vars

----------------------------------------------------------------------------
(* The settling of the reads of readFileInChunks *)

\* The FileReader answers every readAsText with a load event or an error
\* event, so a read in flight does not wait for ever
FairSpecUpload ==
    ValidatorInit /\ [][UploadNext]_vars /\ WF_vars(readerOnload \/ readerOnerror)

\* C22: every file read started by readFileInChunks eventually settles, and
\* settles exactly once (completed, cancelled or failed); once it has settled
\* uploadState.isUploading is false and stays false until another read starts.
C22_EveryReadSettlesOnce ==
    /\ \A n \in 1..MaxUploads : (upload.started = n) ~> (upload.settled = n)
    /\ [](upload.settled = upload.started - (IF upload.call = Null THEN 0 ELSE 1))
    /\ []((upload.settled = upload.started) => ~upload.isUploading)

\* A second read has settled after a cancel, and the upload state is idle
C22_Witness ==
    /\ upload.started = 2
    /\ upload.settled = 2
    /\ upload.error = [key |-> "validator.uploadCancelled"]
    /\ ~upload.isUploading

----------------------------------------------------------------------------
(* SHACLManager: files dropped on the SHACL drop area *)

\* SHACLManager.onDrop up to the first file.text(). A dropped file is a SHACL
\* text that file.text() can read or cannot read. The call keeps the
\* addSHACLFile of the render in which it was created, and with it that render's
\* shaclFiles prop.
SHACLManagerOnDrop ==
    /\ selectedProfile.mode = "custom"
    /\ shaclDrop = Null
    /\ \E acceptedFiles \in
            SeqsUpTo({[content |-> content, readable |-> readable] :
                         content \in {CustomShapesDoc, BadShapesDoc}, readable \in BOOLEAN},
                     MaxDropFiles) \ {<<>>} :
        /\ Len(customShaclFiles) + Len(acceptedFiles) <= MaxCustomFiles + MaxDropFiles
        /\ shaclDrop' = [acceptedFiles |-> acceptedFiles, index |-> 1,
                         shaclFiles |-> customShaclFiles]
    /\ download' = Null
    /\ UNCHANGED <<selectedProfile, customShaclFiles, textContent, isLoading, validations,
                   shaclShapesCache, validationsStarted, fetchCount, report, resultsCells,
                   viewerCells, largeFileCells, upload>>

\* file.text() of the file the loop is at settles: a file that was read goes
\* through addSHACLFile, onChange([...shaclFiles, file]), a file that could
\* not be read is logged; then the loop goes on or ends
fileTextSettled ==
    /\ shaclDrop # Null
    /\ LET file == shaclDrop.acceptedFiles[shaclDrop.index]
           id == CHOOSE n \in 1..(MaxCustomFiles + MaxDropFiles) :
                     /\ \A k \in 1..Len(customShaclFiles) : customShaclFiles[k].id # n
                     /\ \A k \in 1..Len(shaclDrop.shaclFiles) : shaclDrop.shaclFiles[k].id # n
       IN customShaclFiles' =
              IF file.readable
              THEN Append(shaclDrop.shaclFiles,
                          [id |-> id, content |-> file.content, source |-> "upload"])
              ELSE customShaclFiles
    /\ shaclDrop' = IF shaclDrop.index = Len(shaclDrop.acceptedFiles) THEN Null
                    ELSE [shaclDrop EXCEPT !.index = shaclDrop.index + 1]
    /\ download' = Null
    /\ UNCHANGED <<selectedProfile, textContent, isLoading, validations,
                   shaclShapesCache, validationsStarted, fetchCount, report, resultsCells,
                   viewerCells, largeFileCells, upload>>

SpecShaclDrop ==
    ValidatorInit /\ [][handleModeChange \/ SHACLManagerOnDrop \/ fileTextSettled]_vars

\* The contents of the files of a drop that file.text() can read, in drop order
ReadableContents(acceptedFiles) ==
    LET readable == SelectSeq(acceptedFiles, LAMBDA file : file.readable)
    IN [k \in 1..Len(readable) |-> readable[k].content]

\* The step in which the loop of a drop ends
DropEnds ==
    /\ shaclDrop # Null
    /\ shaclDrop' = Null

\* C23: a drop of several SHACL files adds every successfully read file to the
\* custom shapes list: after a drop of N readable files the list holds its
\* previous entries followed by N new ones, one per file.
C23_DropAddsEveryReadFile ==
    [][DropEnds =>
        LET previous == shaclDrop.shaclFiles
            added == SubSeq(customShaclFiles', Len(previous) + 1, Len(customShaclFiles'))
        IN /\ Len(customShaclFiles') =
                  Len(previous) + Len(ReadableContents(shaclDrop.acceptedFiles))
           /\ SubSeq(customShaclFiles', 1, Len(previous)) = previous
           /\ [k \in 1..Len(added) |-> added[k].content] =
                  ReadableContents(shaclDrop.acceptedFiles)]_vars

\* A drop in which at most one file can be read adds that file
C23_DropOfOneReadableFileAddsIt ==
    [][(DropEnds /\ Len(ReadableContents(shaclDrop.acceptedFiles)) <= 1) =>
        LET previous == shaclDrop.shaclFiles
            added == SubSeq(customShaclFiles', Len(previous) + 1, Len(customShaclFiles'))
        IN /\ SubSeq(customShaclFiles', 1, Len(previous)) = previous
           /\ [k \in 1..Len(added) |-> added[k].content] =
                  ReadableContents(shaclDrop.acceptedFiles)]_vars

====
